---- MODULE Spec2Model ----
(***************************************************************************)
(* Toss'em Hold'em CFR trainer: the game state machine (game::GameState),  *)
(* its apply/undo discipline, the hand evaluator used at showdown and the  *)
(* CFR traversal that drives them.                                         *)
(*                                                                         *)
(* Arrays of the source are functions on 0-based index ranges, vectors are *)
(* sequences.  The double-valued payoffs only ever hold k/2 for an integer *)
(* k, so the payoffs field holds twice the source value (half chips).      *)
(***************************************************************************)
EXTENDS Integers, Sequences, FiniteSets, TLC

\* ------------------------------------------------------------------------
\* Program constants
\* ------------------------------------------------------------------------
STARTING_STACK == 400
SMALL_BLIND == 1
BIG_BLIND == 2

FOLD == 0
CHECK_CALL == 1
RAISE_SMALL == 2
RAISE_LARGE == 3
NUM_ACTIONS == 4

DISCARD0 == 4
DISCARD1 == 5
DISCARD2 == 6

\* The largest value of a uint8_t
UINT8_MAX == 255

STREET_PREFLOP == 0
STREET_FLOP == 1
STREET_BB_DISCARD == 2
STREET_SB_DISCARD == 3
STREET_TURN == 4
STREET_RIVER == 5

\* ------------------------------------------------------------------------
\* Small helpers (std::min, std::max, vector::back, vector::resize)
\* ------------------------------------------------------------------------
Min(a, b) == IF a < b THEN a ELSE b
Max(a, b) == IF a > b THEN a ELSE b

\* The elements of a vector.
Elems(v) == {v[i] : i \in 1..Len(v)}

\* card = rank*4 + suit
rank(c) == c \div 4
suit(c) == c % 4

\* ------------------------------------------------------------------------
\* Hand evaluator (namespace eval)
\* ------------------------------------------------------------------------
\* A HandValue is the tuple <<type, k0, k1, k2, k3, k4>>.
HandValue(type, k0, k1, k2, k3, k4) == <<type, k0, k1, k2, k3, k4>>

\* std::sort(..., std::greater<int>()) on a sequence of ints.
RECURSIVE InsertDesc(_, _)
InsertDesc(x, s) ==
  IF s = <<>> THEN <<x>>
  ELSE IF x >= Head(s) THEN <<x>> \o s
  ELSE <<Head(s)>> \o InsertDesc(x, Tail(s))

RECURSIVE SortDesc(_)
SortDesc(s) == IF s = <<>> THEN <<>> ELSE InsertDesc(Head(s), SortDesc(Tail(s)))

\* HandValue::operator> : lexicographic on (type, kickers)
RECURSIVE LexGreater(_, _, _)
LexGreater(a, b, i) ==
  IF i > 6 THEN FALSE
  ELSE IF a[i] # b[i] THEN a[i] > b[i]
  ELSE LexGreater(a, b, i + 1)

HandGreater(a, b) == LexGreater(a, b, 1)

\* eval::compare : 1 if a wins, -1 if b wins, 0 tie.  Index 1 is the type,
\* indices 2..6 are the loop over the kickers.
RECURSIVE CompareFrom(_, _, _)
CompareFrom(a, b, i) ==
  IF i > 6 THEN 0
  ELSE IF a[i] # b[i] THEN (IF a[i] > b[i] THEN 1 ELSE -1)
  ELSE CompareFrom(a, b, i + 1)

compare(a, b) == CompareFrom(a, b, 1)

\* The (count, rank) groups of a descending rank sequence, each held as the
\* key count*16 + rank: sorting the keys in descending order is the
\* comparator's order (count desc, then rank desc).
RECURSIVE GroupKeys(_)
GroupKeys(s) ==
  IF s = <<>> THEN <<>>
  ELSE LET rest == GroupKeys(Tail(s)) IN
       IF rest # <<>> /\ Head(rest) % 16 = Head(s)
       THEN <<Head(rest) + 16>> \o Tail(rest)
       ELSE <<16 + Head(s)>> \o rest

\* The ranks of the groups of count 1, in the order of the groups.
RECURSIVE Singles(_)
Singles(g) ==
  IF g = <<>> THEN <<>>
  ELSE IF Head(g) \div 16 = 1 THEN <<Head(g) % 16>> \o Singles(Tail(g))
  ELSE Singles(Tail(g))

\* A variant of IsWheel that recognises no wheel.
IsWheelNever(uniq) == FALSE

\* uniq[0]==12 && uniq[1]==3 && uniq[2]==2 && uniq[3]==1 && uniq[4]==0
IsWheel(uniq) == uniq = <<12, 3, 2, 1, 0>>

\* eval_five on a sequence of 5 cards.  With five distinct ranks the sorted
\* ranks are the unique ranks.
eval_five(cards) ==
  LET ranks == SortDesc(<<rank(cards[1]), rank(cards[2]), rank(cards[3]),
                          rank(cards[4]), rank(cards[5])>>)
      is_flush == \A i \in 2..5 : suit(cards[i]) = suit(cards[1])
      groups == SortDesc(GroupKeys(ranks))
      ngroups == Len(groups)
      gcount(i) == groups[i] \div 16
      grank(i) == groups[i] % 16
      is_run == ngroups = 5 /\ ranks[1] - ranks[5] = 4
      is_wheel == ngroups = 5 /\ IsWheel(ranks)
      is_straight == is_run \/ is_wheel
      straight_high == IF is_run THEN ranks[1] ELSE 3
      singles == Singles(groups)
  IN
  IF is_straight /\ is_flush THEN HandValue(8, straight_high, 0, 0, 0, 0)
  ELSE IF gcount(1) = 4 THEN HandValue(7, grank(1), grank(2), 0, 0, 0)
  ELSE IF gcount(1) = 3 /\ ngroups > 1 /\ gcount(2) = 2
       THEN HandValue(6, grank(1), grank(2), 0, 0, 0)
  ELSE IF is_flush THEN HandValue(5, ranks[1], ranks[2], ranks[3], ranks[4], ranks[5])
  ELSE IF is_straight THEN HandValue(4, straight_high, 0, 0, 0, 0)
  ELSE IF gcount(1) = 3 THEN HandValue(3, grank(1), singles[1], singles[2], 0, 0)
  ELSE IF gcount(1) = 2 /\ ngroups > 1 /\ gcount(2) = 2
       THEN HandValue(2, Max(grank(1), grank(2)), Min(grank(1), grank(2)), singles[1], 0, 0)
  ELSE IF gcount(1) = 2 THEN HandValue(1, grank(1), singles[1], singles[2], singles[3], 0)
  ELSE HandValue(0, ranks[1], ranks[2], ranks[3], ranks[4], ranks[5])

\* The index tuples a < b < c < d < e of the five nested loops, as 5-subsets.
FiveOf(n) == {S \in SUBSET (1..n) : Cardinality(S) = 5}

\* The elements of a finite set of ints as an ascending sequence.
RECURSIVE SetAsc(_)
SetAsc(S) ==
  IF S = {} THEN <<>>
  ELSE LET m == CHOOSE x \in S : \A y \in S : x <= y
       IN <<m>> \o SetAsc(S \ {m})

\* The cards at the indices S of a card sequence, in index order.
Pick(cards, S) ==
  LET t == SetAsc(S)
  IN <<cards[t[1]], cards[t[2]], cards[t[3]], cards[t[4]], cards[t[5]]>>

\* A variant of BestOf that keeps the least value.
BestOfLeast(V) == CHOOSE v \in V : \A w \in V : ~HandGreater(v, w)

\* The maximum of a non-empty set of hand values: the loop keeps the first
\* value no later one exceeds, and operator> is a strict total order on
\* values, so the result is the greatest value.
BestOf(V) == CHOOSE v \in V : \A w \in V : ~HandGreater(w, v)

\* evaluate_best on a sequence of n cards
evaluate_best(cards) ==
  LET n == Len(cards) IN
  IF n < 5
  THEN LET rs == SortDesc([i \in 1..n |-> rank(cards[i])]) IN
       HandValue(0, IF n >= 1 THEN rs[1] ELSE 0, IF n >= 2 THEN rs[2] ELSE 0,
                    IF n >= 3 THEN rs[3] ELSE 0, IF n >= 4 THEN rs[4] ELSE 0, 0)
  ELSE BestOf({eval_five(Pick(cards, S)) : S \in FiveOf(n)})

\* ------------------------------------------------------------------------
\* Abstraction (namespace tossem_abs)
\* ------------------------------------------------------------------------
NUM_DISTINCT_ACTIONS == 7

rank_of(c) == c \div 4
suit_of(c) == c % 4

\* A variant of is_suited that never answers true.
is_suited_never(a, b) == FALSE

is_suited(a, b) == suit_of(a) = suit_of(b)

\* *std::max_element over the values a function takes on a finite domain.
MaxOver(f) == CHOOSE m \in {f[x] : x \in DOMAIN f} : \A x \in DOMAIN f : f[x] <= m

get_hole_bucket_2card(c1, c2) ==
  LET r0 == rank_of(c1)
      r1 == rank_of(c2)
      hi == Max(r0, r1)
      lo == Min(r0, r1)
      base == 13 + (hi * (hi - 1)) \div 2 + lo
  IN IF hi = lo THEN hi
     ELSE IF is_suited(c1, c2) THEN base + 78 ELSE base

\* A descending sequence with adjacent duplicates removed (std::unique).
RECURSIVE Unique(_)
Unique(s) ==
  IF Len(s) <= 1 THEN s
  ELSE IF s[1] = s[2] THEN Unique(Tail(s))
  ELSE <<s[1]>> \o Unique(Tail(s))

\* get_hole_bucket on a vector of 2 or 3 cards
get_hole_bucket(hole_cards) ==
  IF Len(hole_cards) = 2
  THEN get_hole_bucket_2card(hole_cards[1], hole_cards[2])
  ELSE
    LET ranks == SortDesc(<<rank_of(hole_cards[1]), rank_of(hole_cards[2]),
                            rank_of(hole_cards[3])>>)
        a == ranks[1]
        b == ranks[2]
        c == ranks[3]
        trips == a = b /\ b = c
        pair == a = b \/ b = c \/ a = c
        suit_cnt == [x \in 0..3 |-> Cardinality({i \in 1..3 : suit_of(hole_cards[i]) = x})]
        flush_count == MaxOver(suit_cnt)
        uniq == Unique(ranks)
        straight_potential ==
          Cardinality({i \in 1..(Len(uniq) - 1) : uniq[i] - uniq[i + 1] <= 2})
        strength == a * 2 + b + c
                    + (IF trips THEN 30 ELSE IF pair THEN 15 ELSE 0)
                    + (flush_count - 1) * 8
                    + straight_potential * 5
        bucket == strength \div 6
    IN IF bucket < 0 THEN 0 ELSE IF bucket > 39 THEN 39 ELSE bucket

\* get_board_bucket on a vector of board cards
get_board_bucket(board) ==
  IF board = <<>> THEN 0
  ELSE
    LET n == Len(board)
        rc == [r \in 0..12 |-> Cardinality({i \in 1..n : rank_of(board[i]) = r})]
        max_rank_count == MaxOver(rc)
        sc == [x \in 0..3 |-> Cardinality({i \in 1..n : suit_of(board[i]) = x})]
        max_suit_count == MaxOver(sc)
        uniq == {rank_of(board[i]) : i \in 1..n}
        \* uniq is sorted ascending, so j - i + 1 is the number of distinct
        \* ranks from uniq[i] to uniq[j]
        spans == {Cardinality({r \in uniq : lo <= r /\ r <= hi}) :
                    <<lo, hi>> \in {w \in uniq \X uniq : w[1] < w[2] /\ w[2] - w[1] <= 4}}
        straight_potential == IF spans = {} THEN 0
                              ELSE CHOOSE m \in spans : \A x \in spans : x <= m
        high_card == CHOOSE m \in uniq : \A x \in uniq : x <= m
        paired == IF max_rank_count >= 2 THEN 1 ELSE 0
        flush_draw == Min(2, max_suit_count - 1)
        straight_draw == Min(2, Max(0, straight_potential - 2))
        high == IF high_card >= 10 THEN 1 ELSE 0
        bucket == paired * 12 + flush_draw * 4 + straight_draw * 2 + high
    IN IF bucket > 24 THEN 24 ELSE bucket

get_pot_bucket(pot_sz) ==
  IF pot_sz <= 4 THEN 0
  ELSE IF pot_sz <= 10 THEN 1
  ELSE IF pot_sz <= 25 THEN 2
  ELSE IF pot_sz <= 60 THEN 3
  ELSE IF pot_sz <= 140 THEN 4
  ELSE 5

\* The number of entries of a history whose action is in the set A.
RECURSIVE CountActions(_, _)
CountActions(hist, A) ==
  IF hist = <<>> THEN 0
  ELSE (IF Head(hist)[2] \in A THEN 1 ELSE 0) + CountActions(Tail(hist), A)

\* A variant of get_history_bucket that counts a raise only if it is large.
get_history_bucket_large_only(hist) ==
  IF hist = <<>> THEN 0
  ELSE LET raises == CountActions(hist, {RAISE_LARGE})
           large_raises == CountActions(hist, {RAISE_LARGE})
       IN IF raises = 0 THEN 1
          ELSE IF raises = 1 /\ large_raises = 0 THEN 2
          ELSE IF raises = 1 /\ large_raises = 1 THEN 3
          ELSE IF raises = 2 THEN 4
          ELSE 5

get_history_bucket(hist) ==
  IF hist = <<>> THEN 0
  ELSE LET raises == CountActions(hist, {RAISE_SMALL, RAISE_LARGE})
           large_raises == CountActions(hist, {RAISE_LARGE})
       IN IF raises = 0 THEN 1
          ELSE IF raises = 1 /\ large_raises = 0 THEN 2
          ELSE IF raises = 1 /\ large_raises = 1 THEN 3
          ELSE IF raises = 2 THEN 4
          ELSE 5

\* compute_info_key.  eff_stack is ignored and stack_bucket keeps its default;
\* legal_action_mask is at most 0x7F, so the mask with 0x7F keeps it.
compute_info_key(player, street, hole_cards, board_cards, pot_sz, eff_stack, betting_history, bb_discarded, sb_discarded, legal_action_mask) ==
  [ player |-> player,
    street |-> street,
    hole_bucket |-> get_hole_bucket(hole_cards),
    board_bucket |-> get_board_bucket(board_cards),
    pot_bucket |-> get_pot_bucket(pot_sz),
    stack_bucket |-> 0,
    hist_bucket |-> get_history_bucket(betting_history),
    bb_discarded |-> IF bb_discarded THEN 1 ELSE 0,
    sb_discarded |-> IF sb_discarded THEN 1 ELSE 0,
    legal_mask |-> legal_action_mask % 128 ]

\* ------------------------------------------------------------------------
\* Deals.  reset() shuffles the 52 cards; the generator's outcome is a choice
\* among the shuffles below.  A shuffle is given by its first ten cards (the
\* six hole cards, the two flop cards, the turn and the river), the other
\* cards following in ascending order.
\* ------------------------------------------------------------------------
DealPrefixes ==
  { <<51, 45, 0, 50, 41, 4, 47, 43, 22, 1>>,
    <<28, 29, 10, 35, 13, 12, 51, 47, 43, 39>> }

RECURSIVE Ascending(_, _)
Ascending(c, used) ==
  IF c > 51 THEN <<>>
  ELSE IF c \in used THEN Ascending(c + 1, used)
  ELSE <<c>> \o Ascending(c + 1, used)

\* The shuffled deck `full` as a function on 0..51.
Shuffle(prefix) ==
  LET all == prefix \o Ascending(0, {prefix[i] : i \in 1..Len(prefix)})
  IN [i \in 0..51 |-> all[i + 1]]

\* ------------------------------------------------------------------------
\* GameState (namespace game)
\* ------------------------------------------------------------------------
\* A variant of reset that leaves deck_idx as it is.
reset_keep_deck_idx(s, full) ==
  [ s EXCEPT
      !.hand_sizes = [p \in 0..1 |-> 3],
      !.hands = [p \in 0..1 |-> [i \in 0..2 |-> full[p * 3 + i]]],
      !.deck = [i \in 0..45 |-> full[6 + i]],
      !.board_size = 0,
      !.street = STREET_PREFLOP,
      !.pips = <<SMALL_BLIND, BIG_BLIND>>,
      !.stacks = <<STARTING_STACK - SMALL_BLIND, STARTING_STACK - BIG_BLIND>>,
      !.current_player = 0,
      !.history = <<>>,
      !.street_history = <<>>,
      !.bb_discarded = FALSE,
      !.sb_discarded = FALSE,
      !.is_terminal = FALSE,
      !.payoffs = <<0, 0>> ]

\* GameState::reset applied to state s with shuffled deck full
reset(s, full) ==
  [ s EXCEPT
      !.hand_sizes = [p \in 0..1 |-> 3],
      !.hands = [p \in 0..1 |-> [i \in 0..2 |-> full[p * 3 + i]]],
      !.deck = [i \in 0..45 |-> full[6 + i]],
      !.deck_idx = 0,
      !.board_size = 0,
      !.street = STREET_PREFLOP,
      !.pips = <<SMALL_BLIND, BIG_BLIND>>,
      !.stacks = <<STARTING_STACK - SMALL_BLIND, STARTING_STACK - BIG_BLIND>>,
      !.current_player = 0,
      !.history = <<>>,
      !.street_history = <<>>,
      !.bb_discarded = FALSE,
      !.sb_discarded = FALSE,
      !.is_terminal = FALSE,
      !.payoffs = <<0, 0>> ]

\* A default-constructed GameState.  The hands, board and deck arrays have no
\* initializer; no operation reads a cell it has not written, so the cells
\* start as card 0.  pips, stacks and payoffs are indexed by player + 1.
Constructed ==
  [ hands |-> [p \in 0..1 |-> [i \in 0..2 |-> 0]],
    hand_sizes |-> [p \in 0..1 |-> 0],
    board |-> [i \in 0..5 |-> 0],
    board_size |-> 0,
    deck |-> [i \in 0..45 |-> 0],
    deck_idx |-> 0,
    street |-> STREET_PREFLOP,
    pips |-> <<SMALL_BLIND, BIG_BLIND>>,
    stacks |-> <<STARTING_STACK - SMALL_BLIND, STARTING_STACK - BIG_BLIND>>,
    current_player |-> 0,
    history |-> <<>>,
    street_history |-> <<>>,
    bb_discarded |-> FALSE,
    sb_discarded |-> FALSE,
    is_terminal |-> FALSE,
    payoffs |-> <<0, 0>> ]

pot(s) == (STARTING_STACK - s.stacks[1]) + (STARTING_STACK - s.stacks[2])

continue_cost(s) == s.pips[(1 - s.current_player) + 1] - s.pips[s.current_player + 1]

effective_stack(s) == Min(s.stacks[1], s.stacks[2])

\* A variant of is_discard_phase in which only the big blind discards.
is_discard_phase_bb_only(s) ==
  s.street = STREET_BB_DISCARD /\ ~s.bb_discarded

is_discard_phase(s) ==
  \/ s.street = STREET_BB_DISCARD /\ ~s.bb_discarded
  \/ s.street = STREET_SB_DISCARD /\ ~s.sb_discarded

\* A variant of legal_actions that offers the raises to a player facing no
\* bet whatever the stacks are.
legal_actions_unchecked_raise(s) ==
  IF s.is_terminal THEN <<>>
  ELSE IF is_discard_phase(s) THEN <<DISCARD0, DISCARD1, DISCARD2>>
  ELSE LET cost == continue_cost(s)
           cp == s.current_player
       IN IF cost = 0
          THEN <<CHECK_CALL, RAISE_SMALL, RAISE_LARGE>>
          ELSE <<FOLD, CHECK_CALL>> \o
               (IF cost < s.stacks[cp + 1] /\ s.stacks[(1 - cp) + 1] > 0
                THEN <<RAISE_SMALL, RAISE_LARGE>> ELSE <<>>)

\* A variant of legal_actions that offers nothing once both players are
\* all in.
legal_actions_none_all_in(s) ==
  IF s.is_terminal \/ (s.stacks[1] = 0 /\ s.stacks[2] = 0) THEN <<>>
  ELSE IF is_discard_phase(s) THEN <<DISCARD0, DISCARD1, DISCARD2>>
  ELSE LET cost == continue_cost(s)
           cp == s.current_player
       IN IF cost = 0
          THEN <<CHECK_CALL>> \o
               (IF s.stacks[1] > 0 /\ s.stacks[2] > 0
                THEN <<RAISE_SMALL, RAISE_LARGE>> ELSE <<>>)
          ELSE <<FOLD, CHECK_CALL>> \o
               (IF cost < s.stacks[cp + 1] /\ s.stacks[(1 - cp) + 1] > 0
                THEN <<RAISE_SMALL, RAISE_LARGE>> ELSE <<>>)

\* legal_actions() as the vector it returns
legal_actions(s) ==
  IF s.is_terminal THEN <<>>
  ELSE IF is_discard_phase(s) THEN <<DISCARD0, DISCARD1, DISCARD2>>
  ELSE LET cost == continue_cost(s)
           cp == s.current_player
       IN IF cost = 0
          THEN <<CHECK_CALL>> \o
               (IF s.stacks[1] > 0 /\ s.stacks[2] > 0
                THEN <<RAISE_SMALL, RAISE_LARGE>> ELSE <<>>)
          ELSE <<FOLD, CHECK_CALL>> \o
               (IF cost < s.stacks[cp + 1] /\ s.stacks[(1 - cp) + 1] > 0
                THEN <<RAISE_SMALL, RAISE_LARGE>> ELSE <<>>)

\* A variant of should_advance_street without the test that two actions
\* were taken on the street.
should_advance_street_any_size(s) ==
  IF Len(s.street_history) < 1 THEN FALSE
  ELSE s.pips[1] = s.pips[2]
       /\ s.street_history[Len(s.street_history)][2] = CHECK_CALL

should_advance_street(s) ==
  IF Len(s.street_history) < 2 THEN FALSE
  ELSE s.pips[1] = s.pips[2]
       /\ s.street_history[Len(s.street_history)][2] = CHECK_CALL

\* A variant of PoolOf that collects the hole cards and leaves out the board.
PoolOfHoleCards(s, p) ==
  [i \in 1..s.hand_sizes[p] |-> s.hands[p][i - 1]]

\* The hole cards and board of player p as showdown() collects them.
PoolOf(s, p) ==
  [i \in 1..s.hand_sizes[p] |-> s.hands[p][i - 1]]
    \o [i \in 1..s.board_size |-> s.board[i - 1]]

\* showdown(): payoffs are +-p/2.0, held as half chips (+-p).
showdown(s) ==
  LET res == compare(evaluate_best(PoolOf(s, 0)), evaluate_best(PoolOf(s, 1)))
      p == pot(s)
  IN [ s EXCEPT
         !.is_terminal = TRUE,
         !.payoffs = IF res > 0 THEN <<p, -p>>
                     ELSE IF res < 0 THEN <<-p, p>>
                     ELSE <<0, 0>> ]

advance_street(s0) ==
  LET s == [s0 EXCEPT !.pips = <<0, 0>>, !.street_history = <<>>] IN
  IF s.street = STREET_PREFLOP
  THEN [ s EXCEPT
           !.board = [s.board EXCEPT ![0] = s.deck[s.deck_idx],
                                     ![1] = s.deck[s.deck_idx + 1]],
           !.board_size = 2,
           !.deck_idx = s.deck_idx + 2,
           !.street = STREET_FLOP,
           !.current_player = 1 ]
  ELSE IF s.street = STREET_FLOP
  THEN [ s EXCEPT !.street = STREET_BB_DISCARD, !.current_player = 1 ]
  ELSE IF s.street = STREET_TURN
  THEN [ s EXCEPT
           !.board = [s.board EXCEPT ![s.board_size] = s.deck[s.deck_idx]],
           !.board_size = s.board_size + 1,
           !.deck_idx = s.deck_idx + 1,
           !.street = STREET_RIVER,
           !.current_player = 1 ]
  ELSE IF s.street = STREET_RIVER
  THEN showdown(s)
  ELSE s

\* A variant of apply_discard in which SB's discard does not deal the turn.
apply_discard_no_turn(s, discard_idx) ==
  LET p == IF s.street = STREET_BB_DISCARD THEN 1 ELSE 0
      card == s.hands[p][discard_idx]
      hs == s.hand_sizes[p]
      t == [ s EXCEPT
               !.hands[p][discard_idx] = s.hands[p][hs - 1],
               !.hand_sizes[p] = hs - 1,
               !.board[s.board_size] = card,
               !.board_size = s.board_size + 1 ]
  IN IF p = 1
     THEN [ t EXCEPT !.bb_discarded = TRUE,
                     !.street = STREET_SB_DISCARD,
                     !.current_player = 0 ]
     ELSE [ t EXCEPT !.sb_discarded = TRUE,
                     !.street = STREET_TURN,
                     !.current_player = 1,
                     !.pips = <<0, 0>>,
                     !.street_history = <<>> ]

\* apply_discard(discard_idx), discard_idx in 0..2
apply_discard(s, discard_idx) ==
  IF s.street = STREET_BB_DISCARD
  THEN LET p == 1
           card == s.hands[p][discard_idx]
           hs == s.hand_sizes[p]
       IN [ s EXCEPT
              !.hands[p][discard_idx] = s.hands[p][hs - 1],
              !.hand_sizes[p] = hs - 1,
              !.board[s.board_size] = card,
              !.board_size = s.board_size + 1,
              !.bb_discarded = TRUE,
              !.street = STREET_SB_DISCARD,
              !.current_player = 0 ]
  ELSE LET p == 0
           card == s.hands[p][discard_idx]
           hs == s.hand_sizes[p]
       IN [ s EXCEPT
              !.hands[p][discard_idx] = s.hands[p][hs - 1],
              !.hand_sizes[p] = hs - 1,
              !.board = [s.board EXCEPT ![s.board_size] = card,
                                        ![s.board_size + 1] = s.deck[s.deck_idx]],
              !.board_size = s.board_size + 2,
              !.deck_idx = s.deck_idx + 1,
              !.sb_discarded = TRUE,
              !.street = STREET_TURN,
              !.current_player = 1,
              !.pips = <<0, 0>>,
              !.street_history = <<>> ]

\* A variant of RaiseContribution that does not cap the raise at the stack.
RaiseContributionUncapped(s, action) ==
  LET cost == continue_cost(s)
      pot_sz == pot(s)
      target == IF action = RAISE_SMALL THEN (pot_sz * 55) \div 100 ELSE pot_sz
      min_raise == cost + Max(cost, BIG_BLIND)
  IN cost + Max(min_raise, target)

\* A variant of RaiseContribution without the minimum raise.
RaiseContributionNoMinimum(s, action) ==
  LET cost == continue_cost(s)
      pot_sz == pot(s)
      stack == s.stacks[s.current_player + 1]
      target == IF action = RAISE_SMALL THEN (pot_sz * 55) \div 100 ELSE pot_sz
      raise_amt == Min(target, stack)
  IN Min(cost + raise_amt, stack)

\* The contribution a raise moves from stack to pip (apply_action, the raise
\* branch).  static_cast<int>(pot_sz * 0.55) truncates; for every pot in
\* range it equals the integer quotient of 55 * pot_sz by 100.
RaiseContribution(s, action) ==
  LET cost == continue_cost(s)
      pot_sz == pot(s)
      stack == s.stacks[s.current_player + 1]
      target == IF action = RAISE_SMALL THEN (pot_sz * 55) \div 100 ELSE pot_sz
      min_raise == cost + Max(cost, BIG_BLIND)
      raise_amt == Min(Max(min_raise, target), stack)
  IN Min(cost + raise_amt, stack)

\* A variant of CallContribution that leaves one chip of the cost unpaid.
CallContributionShort(s) ==
  LET cost == continue_cost(s) IN
  IF cost > 0 THEN Min(cost - 1, s.stacks[s.current_player + 1]) ELSE 0

\* The chips a CHECK_CALL moves from stack to pip.
CallContribution(s) ==
  LET cost == continue_cost(s) IN
  IF cost > 0 THEN Min(cost, s.stacks[s.current_player + 1]) ELSE 0

\* A variant of the fold branch in which the folder is charged the chips it
\* put in while the winner is paid the chips the winner put in.
ApplyFoldOwnChips(s) ==
  LET winner == 1 - s.current_player
      delta == STARTING_STACK - s.stacks[winner + 1]
      own == STARTING_STACK - s.stacks[s.current_player + 1]
  IN [ s EXCEPT
         !.is_terminal = TRUE,
         !.payoffs = [s.payoffs EXCEPT ![winner + 1] = 2 * delta,
                                       ![(1 - winner) + 1] = -(2 * own)] ]

\* The fold branch of apply_action.
ApplyFold(s) ==
  LET winner == 1 - s.current_player
      delta == STARTING_STACK - s.stacks[winner + 1]
  IN [ s EXCEPT
         !.is_terminal = TRUE,
         !.payoffs = [s.payoffs EXCEPT ![winner + 1] = 2 * delta,
                                       ![(1 - winner) + 1] = -(2 * delta)] ]

\* A variant of the tail of apply_action that does not pass the turn.
AfterBetKeepTurn(s, action) ==
  LET cp == s.current_player
      t == [ s EXCEPT !.history = Append(s.history, <<cp, action>>),
                      !.street_history = Append(s.street_history, <<cp, action>>) ]
  IN IF should_advance_street(t) THEN advance_street(t) ELSE t

\* The tail of apply_action after the chips have moved: both histories are
\* extended, then the street advances or the turn passes.
AfterBet(s, action) ==
  LET cp == s.current_player
      t == [ s EXCEPT !.history = Append(s.history, <<cp, action>>),
                      !.street_history = Append(s.street_history, <<cp, action>>) ]
  IN IF should_advance_street(t) THEN advance_street(t)
     ELSE [t EXCEPT !.current_player = 1 - cp]

\* The chips of the current player moved by amount from stack to pip.
Contribute(s, amount) ==
  LET cp == s.current_player IN
  [ s EXCEPT !.pips[cp + 1] = s.pips[cp + 1] + amount,
             !.stacks[cp + 1] = s.stacks[cp + 1] - amount ]

\* The Undo snapshot apply_action takes on entry.
Snapshot(s) ==
  [ street |-> s.street,
    current_player |-> s.current_player,
    pips |-> s.pips,
    stacks |-> s.stacks,
    bb_discarded |-> s.bb_discarded,
    sb_discarded |-> s.sb_discarded,
    is_terminal |-> s.is_terminal,
    payoffs |-> s.payoffs,
    history_size |-> Len(s.history),
    street_history_size |-> Len(s.street_history),
    deck_idx |-> s.deck_idx,
    hand_sizes |-> s.hand_sizes,
    board_size |-> s.board_size ]

\* apply_action(action, u): the state it leaves (u is Snapshot of the state
\* it was called in).
apply_action(s, action) ==
  IF s.is_terminal THEN s
  ELSE IF is_discard_phase(s) THEN apply_discard(s, action - 4)
  ELSE IF action = FOLD THEN ApplyFold(s)
  ELSE IF action = CHECK_CALL THEN AfterBet(Contribute(s, CallContribution(s)), action)
  ELSE IF action = RAISE_SMALL \/ action = RAISE_LARGE
       THEN AfterBet(Contribute(s, RaiseContribution(s, action)), action)
  ELSE AfterBet(s, action)

\* std::vector<std::pair<int,int>>::resize(n): truncates, or appends
\* value-initialized pairs (0, 0).
Resize(v, n) ==
  IF n <= Len(v) THEN SubSeq(v, 1, n)
  ELSE v \o [i \in 1..(n - Len(v)) |-> <<0, 0>>]

\* A variant of undo_action that does not restore hand_sizes.
undo_action_keep_hand_sizes(s, u) ==
  [ s EXCEPT
      !.street = u.street,
      !.current_player = u.current_player,
      !.pips = u.pips,
      !.stacks = u.stacks,
      !.bb_discarded = u.bb_discarded,
      !.sb_discarded = u.sb_discarded,
      !.is_terminal = u.is_terminal,
      !.payoffs = u.payoffs,
      !.history = Resize(s.history, u.history_size),
      !.street_history = Resize(s.street_history, u.street_history_size),
      !.deck_idx = u.deck_idx,
      !.board_size = u.board_size ]

\* undo_action(u)
undo_action(s, u) ==
  [ s EXCEPT
      !.street = u.street,
      !.current_player = u.current_player,
      !.pips = u.pips,
      !.stacks = u.stacks,
      !.bb_discarded = u.bb_discarded,
      !.sb_discarded = u.sb_discarded,
      !.is_terminal = u.is_terminal,
      !.payoffs = u.payoffs,
      !.history = Resize(s.history, u.history_size),
      !.street_history = Resize(s.street_history, u.street_history_size),
      !.deck_idx = u.deck_idx,
      !.hand_sizes = u.hand_sizes,
      !.board_size = u.board_size ]

\* The bit mask of the action ids 0..6 in a vector of actions.
RECURSIVE MaskOf(_)
MaskOf(S) ==
  IF S = {} THEN 0
  ELSE LET a == CHOOSE x \in S : TRUE IN 2^a + MaskOf(S \ {a})

\* A variant of info_key that gathers the hole cards of the other player.
info_key_other_hole(s, player, legal_actions_vec) ==
  LET hole == [i \in 1..s.hand_sizes[1 - player] |-> s.hands[1 - player][i - 1]]
      boardv == [i \in 1..s.board_size |-> s.board[i - 1]]
      la_mask == MaskOf({a \in Elems(legal_actions_vec) :
                           a >= 0 /\ a < NUM_DISTINCT_ACTIONS})
  IN compute_info_key(player, s.street, hole, boardv, pot(s), effective_stack(s),
                      s.history, s.bb_discarded, s.sb_discarded, la_mask)

\* info_key(player, legal_actions_vec)
info_key(s, player, legal_actions_vec) ==
  LET hole == [i \in 1..s.hand_sizes[player] |-> s.hands[player][i - 1]]
      boardv == [i \in 1..s.board_size |-> s.board[i - 1]]
      la_mask == MaskOf({a \in Elems(legal_actions_vec) :
                           a >= 0 /\ a < NUM_DISTINCT_ACTIONS})
  IN compute_info_key(player, s.street, hole, boardv, pot(s), effective_stack(s),
                      s.history, s.bb_discarded, s.sb_discarded, la_mask)

\* ------------------------------------------------------------------------
\* regret_match.  Regrets are integers; a quotient x / y of the code is the
\* fraction <<x, y>> with y > 0, compared by cross-multiplication.
\* ------------------------------------------------------------------------
\* norm after the first loop of regret_match over the vector v: the sum of
\* s[a] over the entries a of v that are action ids.
RECURSIVE NormOver(_, _)
NormOver(s1, v) ==
  IF v = <<>> THEN 0
  ELSE (IF 0 <= Head(v) /\ Head(v) < NUM_ACTIONS THEN s1[Head(v)] ELSE 0)
         + NormOver(s1, Tail(v))

\* A variant of Positive that keeps a negative regret.
PositiveRaw(r) == r

\* std::max(0.0, r)
Positive(r) == Max(0, r)

\* regret_match(node, legal), node given by its regret array
regret_match(regret, legalv) ==
  LET s1 == [a \in 0..(NUM_ACTIONS - 1) |->
               IF a \in Elems(legalv) THEN Positive(regret[a]) ELSE 0]
      norm == NormOver(s1, legalv)
      usize == Max(1, Len(legalv))
  IN [a \in 0..(NUM_ACTIONS - 1) |->
        IF norm > 0
        THEN (IF a \in Elems(legalv) THEN <<s1[a], norm>> ELSE <<0, 1>>)
        ELSE (IF a \in Elems(legalv) THEN <<1, usize>> ELSE <<0, 1>>)]

\* ------------------------------------------------------------------------
\* Bounds of the exploration
\* ------------------------------------------------------------------------
\* Direct play: most raises in a hand in which every raise is a preflop
\* RAISE_LARGE.  Six of them put a 400-chip stack all in.
MaxRaises == 6
\* Direct play: most raises in a hand with raises of any other kind.
MaxAnyRaises == 1
MaxSizedRaises == 2
\* Direct play to the end of the hand: most RAISE_SMALL actions, taken
\* preflop, in a hand whose pot-sized raises are limited by the stacks alone.
MaxSmallRaises == 1
MaxHistory == 3
\* CFR traversal: the number of raises in the history from which the
\* traversal no longer expands or samples a raise.
CfrMaxRaises == 1
\* CFR traversal: at the first MaxDraws sampling nodes of a worker the
\* generator's draw is any legal action; at the later ones it is the first.
MaxDraws == 1
\* Outer iterations of run_worker.
MaxIters == 1
\* regret_match: a regret is an integer of at most this magnitude.
MaxRegret == 2
\* Trainer: the largest --iters
MaxTarget == 3
\* Trainer: the largest --threads
MaxThreads == 2
\* Trainer: the largest --batch
MaxBatch == 2
\* Trainer: the largest --checkpoint
MaxCheckpoint == 2
\* Trainer: the largest value std::random_device returns
MaxRd == 1
\* Merging any tables: the number of worker tables merged.
MergeWorkers == 2
\* Command lines: the most arguments after the program name.
MaxArgs == 2
\* Doubles: the bits of the significand (53 in the program's double).  A
\* regret or strat_sum is an integer-valued double.
MantissaBits == 3

\* ------------------------------------------------------------------------
\* train_mccfr: Node, Table, merge_into, save_binary_v2, main's arithmetic
\* ------------------------------------------------------------------------
\* A Table with no node.
EmptyTable == [k \in {} |-> 0]

Abs(x) == IF x < 0 THEN -x ELSE x

\* The spacing of the doubles at magnitude m.
RECURSIVE Ulp(_)
Ulp(m) == IF m < 2^MantissaBits THEN 1 ELSE 2 * Ulp(m \div 2)

\* The double nearest to the integer x, a tie going to the even significand.
Round(x) ==
  LET m == Abs(x)
      q == Ulp(m)
      lo == (m \div q) * q
      r == m - lo
      res == IF 2 * r < q THEN lo
             ELSE IF 2 * r > q THEN lo + q
             ELSE IF (lo \div q) % 2 = 0 THEN lo ELSE lo + q
  IN IF x < 0 THEN -res ELSE res

\* a + b on doubles
FAdd(a, b) == Round(a + b)

\* A default-initialized Node
ZeroNode ==
  [ regret |-> [a \in 0..(NUM_ACTIONS - 1) |-> 0],
    strat_sum |-> [a \in 0..(NUM_ACTIONS - 1) |-> 0] ]

\* A variant of AddNode that stores the source node over the destination.
AddNodeOverwrite(d, s) == s

\* The inner loop of merge_into: d.regret[a] += s.regret[a] and
\* d.strat_sum[a] += s.strat_sum[a] for every a.
AddNode(d, s) ==
  [ regret |-> [a \in 0..(NUM_ACTIONS - 1) |-> FAdd(d.regret[a], s.regret[a])],
    strat_sum |-> [a \in 0..(NUM_ACTIONS - 1) |-> FAdd(d.strat_sum[a], s.strat_sum[a])] ]

\* merge_into(dst, src): dst afterwards.  dst[kv.first] creates a default
\* node for a key dst does not hold.
merge_into(dst, src) ==
  [k \in DOMAIN dst \cup DOMAIN src |->
     IF k \in DOMAIN src
     THEN AddNode(IF k \in DOMAIN dst THEN dst[k] ELSE ZeroNode, src[k])
     ELSE dst[k]]

\* save_binary_v2(path, table, iterations): the file it writes, as its
\* header fields and its rows.
save_binary_v2(path, tbl, iterations) ==
  [ path |-> path,
    magic |-> "TOSS",
    version |-> 2,
    iterations |-> iterations,
    num_nodes |-> Cardinality(DOMAIN tbl),
    rows |-> tbl ]

\* write_le: the n bytes of the unsigned value x, least significant first
\* (the build targets a little-endian machine).
RECURSIVE write_le(_, _)
write_le(x, n) ==
  IF n = 0 THEN <<>> ELSE <<x % 256>> \o write_le(x \div 256, n - 1)

\* save_binary_v2: the header, magic 0x544F5353 and version 2 as uint32,
\* iterations as int64 and num_nodes as uint64.
HeaderBytes(iterations, num_nodes) ==
  <<83, 83, 79, 84>> \o write_le(2, 4) \o write_le(iterations, 8) \o write_le(num_nodes, 8)

\* save_binary_v2: flags = (bb_discarded ? 0x80 : 0) | (sb_discarded ? 0x40 : 0)
\*                         | (legal_mask & 0x3F)
FlagsByte(k) ==
  (IF k.bb_discarded # 0 THEN 128 ELSE 0) + (IF k.sb_discarded # 0 THEN 64 ELSE 0)
  + (k.legal_mask % 64)

\* save_binary_v2: the nine bytes written for the key k.  stack_bucket is
\* not written.
KeyBytes(k) ==
  <<k.player, k.street>> \o write_le(k.hole_bucket, 2) \o write_le(k.board_bucket, 2)
  \o <<k.pot_bucket, k.hist_bucket, FlagsByte(k)>>

\* The eight bytes of the double 0.0 and of the double 1.0.
DoubleBytes == { <<0, 0, 0, 0, 0, 0, 0, 0>>, <<0, 0, 0, 0, 0, 0, 240, 63>> }

RECURSIVE Repeat(_, _)
Repeat(bytes, n) == IF n = 0 THEN <<>> ELSE bytes \o Repeat(bytes, n - 1)

\* A variant of RecordBytes that leaves out the two reserved bytes.
RecordBytesNoReserved(k, d) == KeyBytes(k) \o Repeat(d, 2 * NUM_ACTIONS)

\* save_binary_v2: the row of key k: the key, regret[0..3], strat_sum[0..3]
\* (each double with the bytes d) and the reserved uint16 0.
RecordBytes(k, d) == KeyBytes(k) \o Repeat(d, 2 * NUM_ACTIONS) \o write_le(0, 2)

\* The keys of an unordered_map in the order a loop over it visits them.
RECURSIVE RowOrder(_)
RowOrder(S) ==
  IF S = {} THEN <<>>
  ELSE LET k == CHOOSE x \in S : TRUE IN <<k>> \o RowOrder(S \ {k})

\* The rows of the keys ks, one after the other.
RowsBytes(ks, d) ==
  LET rows == [j \in 1..Len(ks) |-> RecordBytes(ks[j], d)]
      width == IF ks = <<>> THEN 0 ELSE Len(rows[1])
  IN [i \in 1..(width * Len(ks)) |-> rows[((i - 1) \div width) + 1][((i - 1) % width) + 1]]

\* save_binary_v2(path, table, iterations): the bytes of the file it writes.
SaveBytes(tbl, iterations, d) ==
  HeaderBytes(iterations, Cardinality(DOMAIN tbl)) \o RowsBytes(RowOrder(DOMAIN tbl), d)

\* The path of the checkpoint written at done iterations:
\* out_path + ".checkpoint_" + to_string(done / 1000) + "k"
\* A variant of CheckpointDue that waits until the interval is exceeded.
CheckpointDueStrict(done_now, last_cp, interval) == done_now - last_cp > interval

\* main: if (done - last_checkpoint >= checkpoint_interval)
CheckpointDue(done_now, last_cp, interval) == done_now - last_cp >= interval

CheckpointPath(out_path, done_now) == <<out_path, ".checkpoint_", done_now \div 1000, "k">>

\* a ^ b on unsigned integers
RECURSIVE Xor(_, _)
Xor(a, b) ==
  IF a = 0 THEN b
  ELSE IF b = 0 THEN a
  ELSE (((a % 2) + (b % 2)) % 2) + 2 * Xor(a \div 2, b \div 2)

\* static_cast<uint32_t>(rd()) ^ static_cast<uint32_t>(done + w*1337); both
\* operands are below 2^32 here, so the casts leave them as they are.
WorkerSeed(rdv, done_now, widx) == Xor(rdv, done_now + widx * 1337)

\* A variant of PerWorker without the floor of 1.
PerWorkerNoFloor(iters, done_now, threads, batch) ==
  Min(batch, (iters - done_now) \div threads + 1)

\* per = max(1, min(batch, remaining / threads + 1)), remaining = iters - done
PerWorker(iters, done_now, threads, batch) ==
  Max(1, Min(batch, (iters - done_now) \div threads + 1))

\* A node with entry x in regret[0] and |x| in strat_sum[NUM_ACTIONS - 1].
NodeOf(x) ==
  [ regret |-> [a \in 0..(NUM_ACTIONS - 1) |-> IF a = 0 THEN x ELSE 0],
    strat_sum |-> [a \in 0..(NUM_ACTIONS - 1) |-> IF a = NUM_ACTIONS - 1 THEN Abs(x) ELSE 0] ]

\* run_worker(iters, seed).  Its generator is seeded with seed and its table
\* and GameState are its own, so the WorkerResult is a function of the two
\* arguments; the table is represented by one node that records them: the
\* key stands for the information sets the deals of that seed reach.
run_worker(iters, seed) ==
  [ table |-> [k \in {seed} |-> NodeOf(iters)], iters |-> iters ]

\* Merging any tables: the keys of the tables drawn.
Keys == {1, 2}

\* Merging any tables: the nodes drawn, with a small entry and with one
\* large enough for its sum with a small entry to need rounding.
Nodes == {NodeOf(x) : x \in {1, 2^MantissaBits}}

\* Merging any tables: the tables drawn.
Tables == UNION {[K -> Nodes] : K \in SUBSET Keys}

\* ------------------------------------------------------------------------
\* State
\* ------------------------------------------------------------------------
VARIABLES
  st,          \* the GameState object
  u,           \* direct play: the caller's Undo record, filled by apply_action
  before,      \* direct play: the state the last apply_action or reset was called in
  last,        \* direct play: the action the last apply_action was passed
  phase,       \* direct play: "play", or "undone" once undo_action has run
  off,         \* direct play: raises so far other than a preflop RAISE_LARGE
  board_sizes, \* direct play: the successive distinct values of board_size
  frames,      \* cfr_traverse: the recursion stack, innermost frame last
  wpc,         \* run_worker: "idle", "reset", "call", "run", "returned", "done"
  p,           \* run_worker: the loop variable p (update_player)
  iter,        \* run_worker: the loop variable i
  table,       \* run_worker: r.table, each key with the times its node's arrays were updated
  draws,       \* run_worker: sampling nodes visited so far, counted up to MaxDraws
  entry,       \* the state the running top-level cfr_traverse was entered with
  node,        \* regret_match: the regret array of its argument node
  legal,       \* regret_match: its argument legal
  strat,       \* regret_match: the array it returns
  rmpc,        \* regret_match: "idle", "call" before the call, "done" after it
  args,        \* main: iters, threads, batch, checkpoint_interval, out_path
  done,        \* main: done
  last_checkpoint, \* main: last_checkpoint
  per,         \* main: per, of the running batch
  batch_done,  \* main: batch_done
  mpc,         \* main: "none", "while", "spawn", "join", "merge", "end", "final", "exit"
  wi,          \* main: the index of its spawn, join or merge loop
  tpc,         \* thread w of the batch: "unborn", "started", "ran", "finished"
  seeds,       \* thread w: the seed its lambda captured
  local,       \* thread w: the WorkerResult r inside its run_worker
  results,     \* main: the vector results
  global,      \* main: the Table global
  saves,       \* the files written by save_binary_v2, in order
  run,         \* 1 in the first run of the program, 2 in the second
  first,       \* the output file of the first run
  pre,         \* merge: the Table global before the merges of the batch
  order,       \* merge: the workers merged so far, in the order merged
  argv,        \* main: the command line after the program name
  argi,        \* main: the index i of its argument loop (argv[1] is the first argument)
  file,        \* the bytes of the file written from the table of the traversal
  call_args,   \* a direct call of a function of the abstraction or the evaluator: its arguments
  call_result, \* the value the call returned
  call_pc      \* "none", "call" before the call, "done" after it

\* The variables of a GameState and its callers
gvars == <<st, u, before, last, phase, off, board_sizes, frames, wpc, p, iter, table, draws, entry>>

\* The variables of regret_match
rvars == <<node, legal, strat, rmpc>>

\* The variables of the trainer's main and its threads
tvars == <<args, done, last_checkpoint, per, batch_done, mpc, wi, tpc, seeds, local,
           results, global, saves, run, first, pre, order>>

\* The variables of main's argument loop
evars == <<argv, argi>>

\* The file written from the table of the traversal
fvars == <<file>>

\* The variables of a direct call of a function
cvars == <<call_args, call_result, call_pc>>

\* The variables outside a GameState and its callers
xvars == <<rvars, tvars, evars, fvars, cvars>>

vars == <<gvars, xvars>>

\* No call of regret_match is in progress.
NoRegretMatch ==
  /\ node = [a \in 0..(NUM_ACTIONS - 1) |-> 0]
  /\ legal = <<>>
  /\ strat = [a \in 0..(NUM_ACTIONS - 1) |-> <<0, 1>>]
  /\ rmpc = "idle"

\* A WorkerResult as constructed
EmptyResult == [table |-> EmptyTable, iters |-> 0]

\* No trainer is running.
NoTrainer ==
  /\ args = [iters |-> 0, threads |-> 1, batch |-> 1, checkpoint_interval |-> 1,
             out_path |-> "cfr_strategy.bin"]
  /\ done = 0
  /\ last_checkpoint = 0
  /\ per = 0
  /\ batch_done = 0
  /\ mpc = "none"
  /\ wi = 0
  /\ tpc = <<>>
  /\ seeds = <<>>
  /\ local = <<>>
  /\ results = <<>>
  /\ global = EmptyTable
  /\ saves = <<>>
  /\ run = 1
  /\ first = <<>>
  /\ pre = EmptyTable
  /\ order = <<>>

\* No file has been written and no function is called directly.
NoFurther ==
  /\ file = <<>>
  /\ call_args = <<>>
  /\ call_result = <<>>
  /\ call_pc = "none"

\* No command line is being read.
NoExtras ==
  /\ argv = <<>>
  /\ argi = 1
  /\ NoFurther

\* Nothing but the GameState and its callers is active.
OnlyGame == NoRegretMatch /\ NoTrainer /\ NoExtras

\* A caller that has constructed a GameState and called reset once.
Dealt(d) ==
  /\ st = reset(Constructed, Shuffle(d))
  /\ u = Snapshot(Constructed)
  /\ before = st
  /\ last = -1
  /\ phase = "play"
  /\ off = 0
  /\ board_sizes = <<0>>
  /\ frames = <<>>
  /\ wpc = "idle"
  /\ p = 0
  /\ iter = 0
  /\ table = EmptyTable
  /\ draws = 0
  /\ entry = st
  /\ OnlyGame

Init == \E d \in DealPrefixes : Dealt(d)

IsRaise(a) == a = RAISE_SMALL \/ a = RAISE_LARGE

RECURSIVE NumRaises(_)
NumRaises(h) ==
  IF h = <<>> THEN 0
  ELSE (IF IsRaise(Head(h)[2]) THEN 1 ELSE 0) + NumRaises(Tail(h))

\* A raise other than a preflop RAISE_LARGE.
IsOff(s, a) == a = RAISE_SMALL \/ (a = RAISE_LARGE /\ s.street # STREET_PREFLOP)

\* The legal actions the caller of direct play chooses among.
Choices ==
  { a \in Elems(legal_actions(st)) :
      IsRaise(a) => \/ NumRaises(st.history) < MaxAnyRaises
                    \/ /\ ~IsOff(st, a)
                       /\ off = 0
                       /\ NumRaises(st.history) < MaxRaises }

\* ------------------------------------------------------------------------
\* Direct play: a caller applies legal actions to a fresh deal
\* ------------------------------------------------------------------------
\* st.apply_action(a, u) for a legal action a
ApplyAction ==
  /\ phase = "play"
  /\ wpc = "idle"
  /\ \E a \in Choices :
       /\ st' = apply_action(st, a)
       /\ last' = a
       /\ off' = IF IsRaise(a) /\ IsOff(st, a) THEN off + 1 ELSE off
  /\ u' = Snapshot(st)
  /\ before' = st
  /\ board_sizes' = IF st'.board_size = st.board_size THEN board_sizes
                    ELSE Append(board_sizes, st'.board_size)
  /\ UNCHANGED <<phase, frames, wpc, p, iter, table, draws, entry>>
  /\ UNCHANGED xvars

\* st.undo_action(u) right after the apply_action that filled u
UndoAction ==
  /\ phase = "play"
  /\ wpc = "idle"
  /\ st # before
  /\ st' = undo_action(st, u)
  /\ phase' = "undone"
  /\ UNCHANGED <<u, before, last, off, board_sizes, frames, wpc, p, iter, table, draws, entry>>
  /\ UNCHANGED xvars

Next == ApplyAction

Spec == Init /\ [][Next]_vars

\* Direct play of one deal in which any raise is taken while the hand holds
\* fewer than MaxSizedRaises raises.
InitSized == Dealt(<<51, 45, 0, 50, 41, 4, 47, 43, 22, 1>>)

SizedChoices ==
  { a \in Elems(legal_actions(st)) : IsRaise(a) => NumRaises(st.history) < MaxSizedRaises }

\* st.apply_action(a, u) for a legal action a
ApplySized ==
  /\ phase = "play"
  /\ wpc = "idle"
  /\ \E a \in SizedChoices :
       /\ st' = apply_action(st, a)
       /\ last' = a
  /\ u' = Snapshot(st)
  /\ before' = st
  /\ UNCHANGED <<off, board_sizes, phase, frames, wpc, p, iter, table, draws, entry>>
  /\ UNCHANGED xvars

NextSized == ApplySized

SpecSized == InitSized /\ [][NextSized]_vars

\* ------------------------------------------------------------------------
\* Two hands played side by side with the same actions
\* ------------------------------------------------------------------------
\* Deals to set beside the deal of InitSized: the big blind holds other
\* cards behind its first; both players hold their cards in another order;
\* the small blind holds another second card.  The cards dealt to the board
\* are the same, the rest of the deck differs.
TwinDeals ==
  { <<51, 45, 0, 50, 49, 48, 47, 43, 22, 1>>,
    <<45, 0, 51, 4, 41, 50, 47, 43, 22, 1>>,
    <<51, 37, 0, 50, 41, 4, 47, 43, 22, 1>> }

\* Two callers that have each constructed a GameState and called reset
\* once: st on the deal of InitSized, entry on a deal of TwinDeals.
InitTwin ==
  /\ st = reset(Constructed, Shuffle(<<51, 45, 0, 50, 41, 4, 47, 43, 22, 1>>))
  /\ \E d \in TwinDeals : entry = reset(Constructed, Shuffle(d))
  /\ u = Snapshot(Constructed)
  /\ before = st
  /\ last = -1
  /\ phase = "play"
  /\ off = 0
  /\ board_sizes = <<0>>
  /\ frames = <<>>
  /\ wpc = "idle"
  /\ p = 0
  /\ iter = 0
  /\ table = EmptyTable
  /\ draws = 0
  /\ OnlyGame

\* The actions legal in both hands, a raise while the hand holds fewer than
\* MaxAnyRaises raises.
TwinChoices ==
  { a \in Elems(legal_actions(st)) \cap Elems(legal_actions(entry)) :
      IsRaise(a) => NumRaises(st.history) < MaxAnyRaises }

\* apply_action(a, u) on both GameStates for an action a legal in both
ApplyTwin ==
  /\ phase = "play"
  /\ wpc = "idle"
  /\ \E a \in TwinChoices :
       /\ st' = apply_action(st, a)
       /\ entry' = apply_action(entry, a)
       /\ last' = a
  /\ u' = Snapshot(st)
  /\ before' = st
  /\ UNCHANGED <<off, board_sizes, phase, frames, wpc, p, iter, table, draws>>
  /\ UNCHANGED xvars

NextTwin == ApplyTwin

SpecTwin == InitTwin /\ [][NextTwin]_vars

\* Direct play of one deal to the end of the hand.  RAISE_LARGE is taken
\* wherever it is legal, any number of times; RAISE_SMALL preflop while the
\* hand holds fewer than MaxSmallRaises of them; a discard is DISCARD0 (the
\* card discarded has no part in the betting).
RECURSIVE NumSmall(_)
NumSmall(h) ==
  IF h = <<>> THEN 0
  ELSE (IF Head(h)[2] = RAISE_SMALL THEN 1 ELSE 0) + NumSmall(Tail(h))

HandChoices ==
  { a \in Elems(legal_actions(st)) :
      /\ a = RAISE_SMALL =>
           (st.street = STREET_PREFLOP /\ NumSmall(st.history) < MaxSmallRaises)
      /\ a \notin {DISCARD1, DISCARD2} }

\* st.apply_action(a, u) for a legal action a
ApplyToEnd ==
  /\ phase = "play"
  /\ wpc = "idle"
  /\ \E a \in HandChoices :
       /\ st' = apply_action(st, a)
       /\ last' = a
  /\ u' = Snapshot(st)
  /\ before' = st
  /\ UNCHANGED <<off, board_sizes, phase, frames, wpc, p, iter, table, draws, entry>>
  /\ UNCHANGED xvars

NextHand == ApplyToEnd

SpecHand == InitSized /\ [][NextHand]_vars

\* Direct play with one undo_action at any point
NextUndo == ApplyAction \/ UndoAction

SpecUndo == Init /\ [][NextUndo]_vars

\* st.reset(rng) after any sequence of apply_action and undo_action calls
Reset ==
  /\ phase \in {"play", "undone"}
  /\ wpc = "idle"
  /\ \E d \in DealPrefixes : st' = reset(st, Shuffle(d))
  /\ phase' = "reset"
  /\ before' = st
  /\ UNCHANGED <<u, last, off, board_sizes, frames, wpc, p, iter, table, draws, entry>>
  /\ UNCHANGED xvars

NextReset == ApplyAction \/ UndoAction \/ Reset

SpecReset == Init /\ [][NextReset]_vars

\* ------------------------------------------------------------------------
\* Direct play with one call of apply_action outside legal_actions()
\* ------------------------------------------------------------------------
\* The action ids a caller can pass that legal_actions() does not list.
IllegalChoices == (0..(NUM_DISTINCT_ACTIONS - 1)) \ Elems(legal_actions(st))

\* apply_discard(discard_idx) for discard_idx in -4..-1, which indexes
\* hands[p] before its first element.  hands[1][-3..-1] are the bytes of
\* hands[0]; hands[1][-4] and hands[0][-4..-1] lie before the object, and the
\* byte found there is b.  The store to hands[p][discard_idx] lands where the
\* load was made.
apply_discard_before_hand(s, discard_idx, b) ==
  LET who == IF s.street = STREET_BB_DISCARD THEN 1 ELSE 0
      inside == who = 1 /\ discard_idx >= -3
      mem == [i \in -4..2 |->
                IF i >= 0 THEN s.hands[who][i]
                ELSE IF who = 1 /\ i >= -3 THEN s.hands[0][i + 3]
                ELSE b]
      t == apply_discard([s EXCEPT !.hands[who] = mem], discard_idx)
      own == [i \in 0..2 |-> t.hands[who][i]]
  IN IF inside
     THEN [t EXCEPT !.hands = [s.hands EXCEPT ![1] = own,
                                              ![0][discard_idx + 3] = t.hands[1][discard_idx]]]
     ELSE [t EXCEPT !.hands[who] = own]

\* The bytes an out-of-bounds load of apply_discard can find.
BytesBefore(s, discard_idx) ==
  IF s.street = STREET_BB_DISCARD /\ discard_idx >= -3
  THEN {s.hands[0][discard_idx + 3]}
  ELSE 0..UINT8_MAX

\* st.apply_action(a, u) for an action a that legal_actions() does not list.
\* At a betting node every branch is defined.  At a discard node a betting
\* id indexes hands[p] out of bounds: the call either aborts (a checked
\* std::array) or completes on the bytes it finds.
ApplyIllegal ==
  /\ phase = "play"
  /\ wpc = "idle"
  /\ ~st.is_terminal
  /\ \E a \in IllegalChoices :
       /\ last' = a
       /\ IF is_discard_phase(st)
          THEN \/ st' = st /\ phase' = "aborted"
               \/ /\ phase' = "illegal"
                  /\ \E b \in BytesBefore(st, a - 4) :
                       st' = apply_discard_before_hand(st, a - 4, b)
          ELSE st' = apply_action(st, a) /\ phase' = "illegal"
  /\ u' = Snapshot(st)
  /\ before' = st
  /\ UNCHANGED <<off, board_sizes, frames, wpc, p, iter, table, draws, entry>>
  /\ UNCHANGED xvars

NextIllegal == ApplyAction \/ ApplyIllegal

SpecIllegal == Init /\ [][NextIllegal]_vars

\* ------------------------------------------------------------------------
\* regret_match called on any node with any legal betting vector
\* ------------------------------------------------------------------------
\* The vectors legal_actions() can return at a betting node: distinct ids
\* of 0..NUM_ACTIONS-1 in ascending order, at least one.
RECURSIVE AscendingVector(_)
AscendingVector(S) ==
  IF S = {} THEN <<>>
  ELSE LET a == CHOOSE x \in S : \A y \in S : x <= y
       IN <<a>> \o AscendingVector(S \ {a})

LegalVectors == {AscendingVector(S) : S \in (SUBSET (0..(NUM_ACTIONS - 1))) \ {{}}}

\* A GameState that has been constructed and is not used.
NoGame ==
  /\ st = Constructed
  /\ u = Snapshot(Constructed)
  /\ before = st
  /\ last = -1
  /\ phase = "none"
  /\ off = 0
  /\ board_sizes = <<0>>
  /\ frames = <<>>
  /\ wpc = "none"
  /\ p = 0
  /\ iter = 0
  /\ table = EmptyTable
  /\ draws = 0
  /\ entry = st

InitRm ==
  /\ NoGame
  /\ NoTrainer
  /\ NoExtras
  /\ node \in [0..(NUM_ACTIONS - 1) -> (-MaxRegret)..MaxRegret]
  /\ legal \in LegalVectors
  /\ strat = [a \in 0..(NUM_ACTIONS - 1) |-> <<0, 1>>]
  /\ rmpc = "call"

\* auto strat = regret_match(node, legal)
RegretMatch ==
  /\ rmpc = "call"
  /\ strat' = regret_match(node, legal)
  /\ rmpc' = "done"
  /\ UNCHANGED <<node, legal>>
  /\ UNCHANGED <<gvars, tvars, evars, fvars, cvars>>

NextRm == RegretMatch

SpecRm == InitRm /\ [][NextRm]_vars

\* ------------------------------------------------------------------------
\* Direct calls of evaluate_best
\* ------------------------------------------------------------------------
\* Cards rank * 4 + suit.  As 2s 3s 4s 5s 6s Th Jh Qh Kh Ah: the straights
\* through an ace, with and without a flush, and the wrap-arounds.
StraightPool == {48, 0, 4, 8, 12, 16, 33, 37, 41, 45, 49}

\* As Ah Ad Ac Ks Kh Kd Qs Qh 2c: pairs, trips, quads and their mixes.
GroupPool == {48, 49, 50, 51, 44, 45, 46, 40, 41, 3}

\* Ks Kh 9d 9c 7s 7h 4d 4c Jc 2d Ad: pairs and kickers of many ranks.
KickerPool == {44, 45, 30, 31, 20, 21, 10, 11, 39, 2, 50}

\* Ts Js Qs Ks As 2c 3d
RoyalHand == {32, 36, 40, 44, 48, 3, 6}

\* The sets of cards evaluate_best is called with: five to eight distinct
\* cards.
HandSets ==
  {S \in SUBSET StraightPool : Cardinality(S) \in 5..8}
  \cup {S \in SUBSET GroupPool : Cardinality(S) \in 5..8}
  \cup {S \in SUBSET KickerPool : Cardinality(S) \in 5..8}
  \cup {RoyalHand}

\* The cards of a sequence in reverse order.
Reverse(v) == [i \in 1..Len(v) |-> v[Len(v) + 1 - i]]

\* An arrangement of the cards S that is neither ascending nor descending:
\* the cards at the odd places of the ascending order, then the others
\* from the highest down.
Arrange(S) ==
  LET asc == SetAsc(S)
      odd == SelectSeq([i \in 1..Len(asc) |-> IF i % 2 = 1 THEN asc[i] ELSE -1],
                       LAMBDA c : c >= 0)
      even == SelectSeq([i \in 1..Len(asc) |-> IF i % 2 = 0 THEN asc[i] ELSE -1],
                        LAMBDA c : c >= 0)
  IN odd \o Reverse(even)

InitEval ==
  /\ NoGame
  /\ NoRegretMatch
  /\ NoTrainer
  /\ argv = <<>>
  /\ argi = 1
  /\ file = <<>>
  /\ \E S \in HandSets : call_args = Arrange(S)
  /\ call_result = <<>>
  /\ call_pc = "call"

\* HandValue hv = evaluate_best(cards)
EvaluateBest ==
  /\ call_pc = "call"
  /\ call_result' = evaluate_best(call_args)
  /\ call_pc' = "done"
  /\ UNCHANGED call_args
  /\ UNCHANGED <<gvars, rvars, tvars, evars, fvars>>

NextEval == EvaluateBest

SpecEval == InitEval /\ [][NextEval]_vars

\* ------------------------------------------------------------------------
\* Direct calls of get_hole_bucket_2card
\* ------------------------------------------------------------------------
\* The ordered pairs of distinct cards.
CardPairs == {pr \in (0..51) \X (0..51) : pr[1] # pr[2]}

InitBucket ==
  /\ NoGame
  /\ NoRegretMatch
  /\ NoTrainer
  /\ argv = <<>>
  /\ argi = 1
  /\ file = <<>>
  /\ call_args \in CardPairs
  /\ call_result = <<>>
  /\ call_pc = "call"

\* uint16_t b = get_hole_bucket_2card(c1, c2)
HoleBucket2 ==
  /\ call_pc = "call"
  /\ call_result' = get_hole_bucket_2card(call_args[1], call_args[2])
  /\ call_pc' = "done"
  /\ UNCHANGED call_args
  /\ UNCHANGED <<gvars, rvars, tvars, evars, fvars>>

NextBucket == HoleBucket2

\* ------------------------------------------------------------------------
\* Direct calls of get_history_bucket
\* ------------------------------------------------------------------------
\* The betting histories of up to MaxHistory entries <<player, action>>.
Histories ==
  UNION { [1..n -> (0..1) \X (0..(NUM_ACTIONS - 1))] : n \in 0..MaxHistory }

InitHistory ==
  /\ NoGame
  /\ NoRegretMatch
  /\ NoTrainer
  /\ argv = <<>>
  /\ argi = 1
  /\ file = <<>>
  /\ call_args \in Histories
  /\ call_result = <<>>
  /\ call_pc = "call"

\* uint8_t b = get_history_bucket(hist)
HistoryBucket ==
  /\ call_pc = "call"
  /\ call_result' = get_history_bucket(call_args)
  /\ call_pc' = "done"
  /\ UNCHANGED call_args
  /\ UNCHANGED <<gvars, rvars, tvars, evars, fvars>>

NextHistory == HistoryBucket

SpecHistory == InitHistory /\ [][NextHistory]_vars

SpecBucket == InitBucket /\ [][NextBucket]_vars

\* ------------------------------------------------------------------------
\* run_worker and cfr_traverse
\* ------------------------------------------------------------------------
\* legal_actions() as the traversal iterates it, raises left out once the
\* history holds CfrMaxRaises of them.
CfrLegal(s) ==
  SelectSeq(legal_actions(s),
            LAMBDA a : IsRaise(a) => NumRaises(s.history) < CfrMaxRaises)

\* A variant of ExpandsAll without the full traversal of preflop.
ExpandsAllOwnOnly(s, update_player) == s.current_player = update_player

\* Whether cfr_traverse recurses on every legal action of node s (otherwise
\* it samples one).
ExpandsAll(s, update_player) ==
  IF is_discard_phase(s) THEN s.current_player = update_player
  ELSE s.current_player = update_player \/ s.street = STREET_PREFLOP

\* The arguments pi0 and pi1 of the top-level call, 1.0 each.  A reach
\* probability is held as the sequence of its factors, the factor <<key, a>>
\* being strat[a] at the node of that key.
UnitReach == <<<<>>, <<>>>>

\* The activation of cfr_traverse entered in state s with the reach
\* probabilities reach: the actions it has still to try, how it picks among
\* them, its local Undo record, its locals player and legal, the key of its
\* node, and the recursive calls it has made so far, each with the
\* coefficient its value enters the returned value with.
NodeFrame(s, update_player, reach) ==
  [ todo |-> IF s.is_terminal THEN <<>> ELSE CfrLegal(s),
    all |-> ExpandsAll(s, update_player),
    u |-> Snapshot(Constructed),
    kind |-> IF s.is_terminal THEN "terminal"
             ELSE IF is_discard_phase(s) THEN "discard" ELSE "betting",
    player |-> s.current_player,
    street |-> s.street,
    legal |-> IF s.is_terminal THEN <<>> ELSE CfrLegal(s),
    acts |-> Elems(legal_actions(s)) \cap (0..(NUM_ACTIONS - 1)),
    key |-> info_key(s, s.current_player, legal_actions(s)),
    reach |-> reach,
    calls |-> <<>> ]

\* The reach probabilities passed to the recursive call after action a of
\* the activation f: pi0 * strat[a] or pi1 * strat[a] at a betting node,
\* pi0 and pi1 as they are at a discard node.
ChildReach(f, a) ==
  IF f.kind = "betting"
  THEN [f.reach EXCEPT ![f.player + 1] = Append(@, <<f.key, a>>)]
  ELSE f.reach

\* The recursive call after action a of the activation f.  Its value is
\* divided by legal.size() in the loop of an expanded discard node, is
\* multiplied by strat[a] in node_value at an expanded betting node, and is
\* returned as it is at a sampling node.
CallOf(f, a) ==
  [ action |-> a,
    den |-> IF f.kind = "discard" /\ f.all THEN Len(f.legal) ELSE 1,
    by_strat |-> f.kind = "betting" /\ f.all ]

Top == frames[Len(frames)]

\* The doubles of a Node are followed by their signs: an entry is held as
\* the set of the signs it can have.
Signs == {-1, 0, 1}

\* x * y
SignMul(X, Y) == {x * y : x \in X, y \in Y}

\* x + y
SignAdd(X, Y) ==
  UNION { IF x = 0 THEN {y} ELSE IF y = 0 \/ x = y THEN {x} ELSE Signs : x \in X, y \in Y }

\* A variant of Clamp that passes the regret on as it is.
ClampNone(X) == X

\* std::max(0.0, node.regret[a])
Clamp(X) == {Max(0, x) : x \in X}

\* The betting actions whose bit is set in the legal_mask of key k.
LegalOfKey(k) == {a \in 0..(NUM_ACTIONS - 1) : (k.legal_mask \div 2^a) % 2 = 1}

\* regret_match(node, legal) on signs: s[a] is the clamped regret of a legal
\* action; if norm > 0 the entries are divided by it, otherwise they are set
\* to 1 / legal.size(); an entry of an action that is not legal stays 0.
regret_match_signs(nd, acts) ==
  LET s == [a \in 0..(NUM_ACTIONS - 1) |-> IF a \in acts THEN Clamp(nd.regret_at[a]) ELSE {0}]
      positive == \E a \in acts : 1 \in s[a]
      other == (\A a \in acts : 0 \in s[a]) \/ (\E a \in acts : -1 \in s[a])
  IN [a \in 0..(NUM_ACTIONS - 1) |->
        IF a \in acts
        THEN (IF positive THEN s[a] ELSE {}) \cup (IF other THEN {1} ELSE {})
        ELSE {0}]

\* The sign of a reach probability: 1.0 multiplied by its factors, the
\* factor <<key, a>> being strat[a] at the node of that key.
RECURSIVE ReachSign(_, _)
ReachSign(tbl, factors) ==
  IF factors = <<>> THEN {1}
  ELSE LET k == Head(factors)[1]
           a == Head(factors)[2]
       IN SignMul(regret_match_signs(tbl[k], LegalOfKey(k))[a], ReachSign(tbl, Tail(factors)))

\* A Node of the table as default-initialised: the number of times the loop
\* over node.regret and the loop over node.strat_sum have run on it, the
\* signs of the entries of the two arrays, and the players at whose
\* decisions table[key] returned it.
NewNode ==
  [ regret |-> 0,
    strat_sum |-> 0,
    regret_at |-> [a \in 0..(NUM_ACTIONS - 1) |-> {0}],
    sum_at |-> [a \in 0..(NUM_ACTIONS - 1) |-> {0}],
    by |-> {} ]

\* A variant of Touch in which every non-terminal node, a discard node
\* included, fetches or creates table[key].
TouchAnyNode(tbl, s) ==
  IF s.is_terminal THEN tbl
  ELSE LET key == info_key(s, s.current_player, legal_actions(s)) IN
       [k \in DOMAIN tbl \cup {key} |->
          LET old == IF k \in DOMAIN tbl THEN tbl[k] ELSE NewNode
          IN IF k = key THEN [old EXCEPT !.strat_sum = @ + 1] ELSE old]

\* The table once cfr_traverse has been entered in state s: a betting node
\* fetches or creates table[key] and adds to its strat_sum; a terminal or
\* discard node touches nothing.
Touch(tbl, s) ==
  IF s.is_terminal \/ is_discard_phase(s) THEN tbl
  ELSE LET key == info_key(s, s.current_player, legal_actions(s)) IN
       [k \in DOMAIN tbl \cup {key} |->
          LET old == IF k \in DOMAIN tbl THEN tbl[k] ELSE NewNode
          IN IF k = key THEN [old EXCEPT !.strat_sum = @ + 1] ELSE old]

\* The table once cfr_traverse, entered in state s with the reach
\* probabilities reach, has fetched its node and run
\* node.strat_sum[a] += reach * strat[a] over its legal actions.
Accumulate(tbl, s, reach) ==
  IF s.is_terminal \/ is_discard_phase(s) THEN tbl
  ELSE LET key == info_key(s, s.current_player, legal_actions(s))
           acts == Elems(legal_actions(s)) \cap (0..(NUM_ACTIONS - 1))
           sg == regret_match_signs(tbl[key], acts)
           rs == ReachSign(tbl, reach[s.current_player + 1])
       IN [tbl EXCEPT ![key].sum_at =
                        [a \in 0..(NUM_ACTIONS - 1) |->
                           IF a \in acts THEN SignAdd(@[a], SignMul(rs, sg[a])) ELSE @[a]],
                      ![key].by = @ \cup {s.current_player}]

\* node.regret[a] += action_values[a] - node_value over the legal actions:
\* the difference of two payoffs has any sign.
Regretted(r, acts) ==
  [a \in 0..(NUM_ACTIONS - 1) |-> IF a \in acts THEN SignAdd(r[a], Signs) ELSE r[a]]

\* A variant of UpdateRegret that updates the regrets of every expanded
\* betting node.
UpdateRegretExpanded(tbl, f, update_player) ==
  IF f.kind = "betting" /\ f.all
  THEN [tbl EXCEPT ![f.key].regret = @ + 1, ![f.key].regret_at = Regretted(@, f.acts)]
  ELSE tbl

\* The table once the activation f of cfr_traverse has made its recursive
\* calls: an expanded betting node of update_player runs
\* node.regret[a] += action_values[a] - node_value over its legal actions.
UpdateRegret(tbl, f, update_player) ==
  IF f.kind = "betting" /\ f.all /\ f.player = update_player
  THEN [tbl EXCEPT ![f.key].regret = @ + 1, ![f.key].regret_at = Regretted(@, f.acts)]
  ELSE tbl

\* run_worker: st.reset(rng) at the start of an iteration
WorkerReset ==
  /\ wpc = "reset"
  /\ \E d \in DealPrefixes : st' = reset(st, Shuffle(d))
  /\ p' = 0
  /\ wpc' = "call"
  /\ UNCHANGED <<u, before, last, phase, off, board_sizes, frames, iter, table, draws, entry>>
  /\ UNCHANGED xvars

\* run_worker: the top-level call cfr_traverse(st, p, ...)
CfrCall ==
  /\ wpc = "call"
  /\ entry' = st
  /\ frames' = <<NodeFrame(st, p, UnitReach)>>
  /\ wpc' = "run"
  /\ table' = Accumulate(Touch(table, st), st, UnitReach)
  /\ UNCHANGED <<st, u, before, last, phase, off, board_sizes, p, iter, draws>>
  /\ UNCHANGED xvars

\* cfr_traverse: apply_action(a, u) and the recursive call.  A node that
\* expands every action takes them in order; a sampling node draws one
\* (a discard uniformly, a betting action from the regret-matching strategy,
\* which is uniform on a node not updated before).
CfrDescend ==
  /\ wpc = "run"
  /\ Top.todo # <<>>
  /\ \E a \in (IF Top.all \/ draws >= MaxDraws THEN {Head(Top.todo)}
                ELSE Elems(Top.todo)) :
       /\ st' = apply_action(st, a)
       /\ draws' = IF Top.all \/ draws >= MaxDraws THEN draws ELSE draws + 1
       /\ frames' = [frames EXCEPT ![Len(frames)] =
                       [ Top EXCEPT !.todo = IF Top.all THEN Tail(Top.todo) ELSE <<>>,
                                    !.u = Snapshot(st),
                                    !.calls = Append(@, CallOf(Top, a)) ]]
                    \o <<NodeFrame(st', p, ChildReach(Top, a))>>
  /\ table' = Accumulate(Touch(table, st'), st', frames'[Len(frames')].reach)
  /\ UNCHANGED <<u, before, last, phase, off, board_sizes, wpc, p, iter, entry>>
  /\ UNCHANGED xvars

\* cfr_traverse: the end of an activation (the regret update of an expanded
\* node of update_player, and the return from the nested call), and the
\* caller's undo_action(u)
CfrReturn ==
  /\ wpc = "run"
  /\ Len(frames) > 1
  /\ Top.todo = <<>>
  /\ table' = UpdateRegret(table, Top, p)
  /\ st' = undo_action(st, frames[Len(frames) - 1].u)
  /\ frames' = SubSeq(frames, 1, Len(frames) - 1)
  /\ UNCHANGED <<u, before, last, phase, off, board_sizes, wpc, p, iter, draws, entry>>
  /\ UNCHANGED xvars

\* cfr_traverse: return of the top-level call
CfrReturnTop ==
  /\ wpc = "run"
  /\ Len(frames) = 1
  /\ Top.todo = <<>>
  /\ table' = UpdateRegret(table, Top, p)
  /\ frames' = <<>>
  /\ wpc' = "returned"
  /\ UNCHANGED <<st, u, before, last, phase, off, board_sizes, p, iter, draws, entry>>
  /\ UNCHANGED xvars

\* run_worker: the loop over p, then the loop over i
WorkerLoop ==
  /\ wpc = "returned"
  /\ IF p = 0
     THEN p' = 1 /\ wpc' = "call" /\ iter' = iter
     ELSE p' = 2 /\ iter' = iter + 1
          /\ wpc' = IF iter + 1 < MaxIters THEN "reset" ELSE "done"
  /\ UNCHANGED <<st, u, before, last, phase, off, board_sizes, frames, table, draws, entry>>
  /\ UNCHANGED xvars

\* A worker that has constructed its GameState and is about to iterate.
InitWorker ==
  /\ st = Constructed
  /\ u = Snapshot(Constructed)
  /\ before = st
  /\ last = -1
  /\ phase = "play"
  /\ off = 0
  /\ board_sizes = <<0>>
  /\ frames = <<>>
  /\ wpc = "reset"
  /\ p = 0
  /\ iter = 0
  /\ table = EmptyTable
  /\ draws = 0
  /\ entry = st
  /\ OnlyGame

\* main: save_binary_v2 of a table holding the keys of the worker's table,
\* with the iterations done.  The doubles of the nodes, which the traversal
\* above does not compute, are written as 0.0 or as 1.0.
SaveTable ==
  /\ wpc = "done"
  /\ wpc' = "saved"
  /\ \E d \in DoubleBytes : file' = SaveBytes(table, iter, d)
  /\ UNCHANGED <<st, u, before, last, phase, off, board_sizes, frames, p, iter, table, draws, entry>>
  /\ UNCHANGED <<rvars, tvars, evars, cvars>>

NextCfr ==
  WorkerReset \/ CfrCall \/ CfrDescend \/ CfrReturn \/ CfrReturnTop \/ WorkerLoop \/ SaveTable

SpecCfr == InitWorker /\ [][NextCfr]_vars

\* ------------------------------------------------------------------------
\* run_worker called twice with one seed while the global table differs
\* ------------------------------------------------------------------------
\* A variant of WorkerTable in which the worker starts from the global table.
WorkerTableShared(g) == g

\* run_worker: WorkerResult r; its table is default-constructed whatever the
\* global table g of main holds.
WorkerTable(g) == EmptyTable

\* The deal st.reset(rng) shuffles out of the generator seeded with seed.
SeedDeal(seed) ==
  CHOOSE d \in DealPrefixes : (d[1] = 51) <=> (seed % 2 = 0)

\* The index a sampling node draws: d(rng) at a discard node, and
\* sample_action(strat, rng) at a betting node, where strat is
\* regret_match(node, legal).  The draw is a function of the state of the
\* generator (its seed and the draws made before) and, at a betting node,
\* of the regrets of the node in the worker's table.
SampleIndex(seed, n, f, tbl, len) ==
  ((seed + n + (IF f.kind = "betting" THEN tbl[f.key].regret ELSE 0)) % len) + 1

\* The global tables of main: none, or the node of the first decision of
\* the deal with accumulated regrets and strategy sums.
GlobalTables(seed) ==
  {EmptyTable} \cup
  { [k \in DOMAIN Touch(EmptyTable, reset(Constructed, Shuffle(SeedDeal(seed)))) |->
       [ regret |-> r,
         strat_sum |-> r,
         regret_at |-> Regretted(NewNode.regret_at, LegalOfKey(k)),
         sum_at |-> [a \in 0..(NUM_ACTIONS - 1) |-> IF a \in LegalOfKey(k) THEN {0, 1} ELSE {0}],
         by |-> {k.player} ]] : r \in 1..MaxRegret }

\* main holds a global table and calls run_worker(per, seed), which has
\* constructed r, rng and st.
InitBatch ==
  /\ \E seed \in 0..(Cardinality(DealPrefixes) - 1) :
       /\ seeds = <<seed>>
       /\ global \in GlobalTables(seed)
  /\ table = WorkerTable(global)
  /\ st = Constructed
  /\ u = Snapshot(Constructed)
  /\ before = st
  /\ last = -1
  /\ phase = "play"
  /\ off = 0
  /\ board_sizes = <<0>>
  /\ frames = <<>>
  /\ wpc = "reset"
  /\ p = 0
  /\ iter = 0
  /\ draws = 0
  /\ entry = st
  /\ NoRegretMatch
  /\ NoExtras
  /\ args = [iters |-> MaxIters, threads |-> 1, batch |-> MaxIters,
             checkpoint_interval |-> 1, out_path |-> "cfr_strategy.bin"]
  /\ done = 0
  /\ last_checkpoint = 0
  /\ per = MaxIters
  /\ batch_done = 0
  /\ mpc = "join"
  /\ wi = 0
  /\ tpc = <<>>
  /\ local = <<>>
  /\ results = <<>>
  /\ saves = <<>>
  /\ run = 1
  /\ first = <<>>
  /\ pre = EmptyTable
  /\ order = <<>>

\* run_worker: st.reset(rng) at the start of an iteration, the shuffle
\* drawn from the seeded generator
BatchReset ==
  /\ wpc = "reset"
  /\ st' = reset(st, Shuffle(SeedDeal(seeds[1] + iter)))
  /\ p' = 0
  /\ wpc' = "call"
  /\ UNCHANGED <<u, before, last, phase, off, board_sizes, frames, iter, table, draws, entry>>
  /\ UNCHANGED xvars

\* cfr_traverse: apply_action(a, u) and the recursive call, a sampling node
\* drawing its action from the seeded generator
BatchDescend ==
  /\ wpc = "run"
  /\ Top.todo # <<>>
  /\ LET a == IF Top.all THEN Head(Top.todo)
              ELSE Top.todo[SampleIndex(seeds[1], draws, Top, table, Len(Top.todo))]
     IN /\ st' = apply_action(st, a)
        /\ draws' = IF Top.all THEN draws ELSE draws + 1
        /\ frames' = [frames EXCEPT ![Len(frames)] =
                        [ Top EXCEPT !.todo = IF Top.all THEN Tail(Top.todo) ELSE <<>>,
                                     !.u = Snapshot(st),
                                     !.calls = Append(@, CallOf(Top, a)) ]]
                     \o <<NodeFrame(st', p, ChildReach(Top, a))>>
  /\ table' = Accumulate(Touch(table, st'), st', frames'[Len(frames')].reach)
  /\ UNCHANGED <<u, before, last, phase, off, board_sizes, wpc, p, iter, entry>>
  /\ UNCHANGED xvars

\* run_worker has returned r; main, its global table changed meanwhile,
\* calls run_worker again with the same seed, the table of the first call
\* kept for comparison.
Rebatch ==
  /\ wpc = "done"
  /\ run = 1
  /\ first' = table
  /\ run' = 2
  /\ global' = CHOOSE g \in GlobalTables(seeds[1]) : g # global
  /\ table' = WorkerTable(global')
  /\ st' = Constructed
  /\ u' = Snapshot(Constructed)
  /\ before' = Constructed
  /\ last' = -1
  /\ frames' = <<>>
  /\ wpc' = "reset"
  /\ p' = 0
  /\ iter' = 0
  /\ draws' = 0
  /\ entry' = Constructed
  /\ UNCHANGED <<phase, off, board_sizes>>
  /\ UNCHANGED <<args, done, last_checkpoint, per, batch_done, mpc, wi, tpc, seeds, local,
                 results, saves, pre, order>>
  /\ UNCHANGED <<rvars, evars, fvars, cvars>>

\* The inner loop of merge_into on the nodes of the worker: the counts and
\* the signs of d.regret[a] += s.regret[a] and d.strat_sum[a] += s.strat_sum[a].
AddCounted(d, s) ==
  [ regret |-> d.regret + s.regret,
    strat_sum |-> d.strat_sum + s.strat_sum,
    regret_at |-> [a \in 0..(NUM_ACTIONS - 1) |-> SignAdd(d.regret_at[a], s.regret_at[a])],
    sum_at |-> [a \in 0..(NUM_ACTIONS - 1) |-> SignAdd(d.sum_at[a], s.sum_at[a])],
    by |-> d.by \cup s.by ]

\* merge_into(dst, src) on the nodes of the worker: dst afterwards.
MergeCounted(dst, src) ==
  [k \in DOMAIN dst \cup DOMAIN src |->
     IF k \in DOMAIN src
     THEN AddCounted(IF k \in DOMAIN dst THEN dst[k] ELSE NewNode, src[k])
     ELSE dst[k]]

\* main: merge_into(global, r.table) for the table the second call returned
MergeBatch ==
  /\ wpc = "done"
  /\ run = 2
  /\ global' = MergeCounted(global, table)
  /\ wpc' = "merged"
  /\ UNCHANGED <<st, u, before, last, phase, off, board_sizes, frames, p, iter, table, draws, entry>>
  /\ UNCHANGED <<args, done, last_checkpoint, per, batch_done, mpc, wi, tpc, seeds, local,
                 results, saves, run, first, pre, order>>
  /\ UNCHANGED <<rvars, evars, fvars, cvars>>

NextBatch ==
  \/ BatchReset
  \/ CfrCall
  \/ BatchDescend
  \/ CfrReturn
  \/ CfrReturnTop
  \/ WorkerLoop
  \/ Rebatch
  \/ MergeBatch

SpecBatch == InitBatch /\ [][NextBatch]_vars

\* ------------------------------------------------------------------------
\* The trainer: main, its batch loop and its worker threads
\* ------------------------------------------------------------------------
Threads == 0..(args.threads - 1)

\* The command lines: --iters, --threads, --batch, --checkpoint
ArgSets ==
  [ iters : 0..MaxTarget,
    threads : 1..MaxThreads,
    batch : 0..MaxBatch,
    checkpoint_interval : 1..MaxCheckpoint,
    out_path : {"cfr_strategy.bin"} ]

\* main up to its while loop, started with command line a
Started(a) ==
  /\ args = a
  /\ done = 0
  /\ last_checkpoint = 0
  /\ per = 0
  /\ batch_done = 0
  /\ mpc = "while"
  /\ wi = 0
  /\ tpc = [i \in 0..(a.threads - 1) |-> "unborn"]
  /\ seeds = [i \in 0..(a.threads - 1) |-> 0]
  /\ local = [i \in 0..(a.threads - 1) |-> EmptyResult]
  /\ results = [i \in 0..(a.threads - 1) |-> EmptyResult]
  /\ global = EmptyTable
  /\ saves = <<>>
  /\ pre = EmptyTable
  /\ order = <<>>

InitTrain ==
  /\ NoGame
  /\ NoRegretMatch
  /\ NoExtras
  /\ \E a \in ArgSets : Started(a)
  /\ run = 1
  /\ first = <<>>

\* main: the test of while (done < iters); a new batch computes per and
\* constructs ts and results
LoopTest ==
  /\ mpc = "while"
  /\ IF done < args.iters
     THEN /\ per' = PerWorker(args.iters, done, args.threads, args.batch)
          /\ results' = [i \in Threads |-> EmptyResult]
          /\ tpc' = [i \in Threads |-> "unborn"]
          /\ wi' = 0
          /\ mpc' = "spawn"
     ELSE /\ mpc' = "final"
          /\ UNCHANGED <<per, results, tpc, wi>>
  /\ UNCHANGED <<args, done, last_checkpoint, batch_done, seeds, local, global, saves,
                 run, first, pre, order>>
  /\ UNCHANGED <<gvars, rvars, evars, fvars, cvars>>

\* main: one round of the spawn loop: seed from rd(), results[w].iters = per,
\* ts.emplace_back(...) starts thread w
Spawn ==
  /\ mpc = "spawn"
  /\ \E rdv \in 0..MaxRd : seeds' = [seeds EXCEPT ![wi] = WorkerSeed(rdv, done, wi)]
  /\ results' = [results EXCEPT ![wi].iters = per]
  /\ tpc' = [tpc EXCEPT ![wi] = "started"]
  /\ IF wi + 1 < args.threads
     THEN wi' = wi + 1 /\ mpc' = mpc
     ELSE wi' = 0 /\ mpc' = "join"
  /\ UNCHANGED <<args, done, last_checkpoint, per, batch_done, local, global, saves,
                 run, first, pre, order>>
  /\ UNCHANGED <<gvars, rvars, evars, fvars, cvars>>

\* thread i: run_worker(per, seed) up to its return
RunWorker(i) ==
  /\ tpc[i] = "started"
  /\ local' = [local EXCEPT ![i] = run_worker(per, seeds[i])]
  /\ tpc' = [tpc EXCEPT ![i] = "ran"]
  /\ UNCHANGED <<args, done, last_checkpoint, per, batch_done, mpc, wi, seeds, results,
                 global, saves, run, first, pre, order>>
  /\ UNCHANGED <<gvars, rvars, evars, fvars, cvars>>

\* thread i: results[w] = (the value run_worker returned), and the thread
\* ends, its lambda's captures with it
StoreResult(i) ==
  /\ tpc[i] = "ran"
  /\ results' = [results EXCEPT ![i] = local[i]]
  /\ local' = [local EXCEPT ![i] = EmptyResult]
  /\ seeds' = [seeds EXCEPT ![i] = 0]
  /\ tpc' = [tpc EXCEPT ![i] = "finished"]
  /\ UNCHANGED <<args, done, last_checkpoint, per, batch_done, mpc, wi,
                 global, saves, run, first, pre, order>>
  /\ UNCHANGED <<gvars, rvars, evars, fvars, cvars>>

\* A variant of Joinable in which join() returns at once.
JoinableAtOnce(i) == TRUE

\* t.join() returns once thread i has ended.
Joinable(i) == tpc[i] = "finished"

\* main: one round of for (auto& t : ts) t.join()
Join ==
  /\ mpc = "join"
  /\ Joinable(wi)
  /\ IF wi + 1 < args.threads
     THEN wi' = wi + 1 /\ mpc' = mpc /\ UNCHANGED <<batch_done, pre, order>>
     ELSE wi' = 0 /\ mpc' = "merge" /\ batch_done' = 0 /\ pre' = global /\ order' = <<>>
  /\ UNCHANGED <<args, done, last_checkpoint, per, tpc, seeds, local, results, global,
                 saves, run, first>>
  /\ UNCHANGED <<gvars, rvars, evars, fvars, cvars>>

\* main: one round of the merge loop: batch_done += r.iters,
\* merge_into(global, r.table)
Merge ==
  /\ mpc = "merge"
  /\ batch_done' = batch_done + results[wi].iters
  /\ global' = merge_into(global, results[wi].table)
  /\ order' = Append(order, wi)
  /\ IF wi + 1 < args.threads
     THEN wi' = wi + 1 /\ mpc' = mpc
     ELSE wi' = 0 /\ mpc' = "end"
  /\ UNCHANGED <<args, done, last_checkpoint, per, tpc, seeds, local, results, saves,
                 run, first, pre>>
  /\ UNCHANGED <<gvars, rvars, evars, fvars, cvars>>

\* main: done += batch_done, the checkpoint, and the end of the loop body,
\* where ts and results are destroyed
EndBatch ==
  /\ mpc = "end"
  /\ done' = done + batch_done
  /\ IF CheckpointDue(done', last_checkpoint, args.checkpoint_interval)
     THEN /\ saves' = Append(saves, save_binary_v2(CheckpointPath(args.out_path, done'),
                                                   global, done'))
          /\ last_checkpoint' = done'
     ELSE UNCHANGED <<saves, last_checkpoint>>
  /\ results' = [i \in Threads |-> EmptyResult]
  /\ tpc' = [i \in Threads |-> "unborn"]
  /\ mpc' = "while"
  /\ UNCHANGED <<args, per, batch_done, wi, seeds, local, global,
                 run, first, pre, order>>
  /\ UNCHANGED <<gvars, rvars, evars, fvars, cvars>>

\* main: save_binary_v2(out_path, global, done) and return 0
FinalSave ==
  /\ mpc = "final"
  /\ saves' = Append(saves, save_binary_v2(args.out_path, global, done))
  /\ mpc' = "exit"
  /\ UNCHANGED <<args, done, last_checkpoint, per, batch_done, wi, tpc, seeds, local,
                 results, global, run, first, pre, order>>
  /\ UNCHANGED <<gvars, rvars, evars, fvars, cvars>>

NextTrain ==
  \/ LoopTest
  \/ Spawn
  \/ \E i \in Threads : RunWorker(i)
  \/ \E i \in Threads : StoreResult(i)
  \/ Join
  \/ Merge
  \/ EndBatch
  \/ FinalSave

SpecTrain == InitTrain /\ [][NextTrain]_vars

\* The operating system runs every thread that can run.
SpecTrainFair == SpecTrain /\ WF_vars(NextTrain)

\* ------------------------------------------------------------------------
\* main: the argument loop
\* ------------------------------------------------------------------------
\* The flags that take a value, and the help flags
ValueFlags == {"-i", "--iters", "-t", "--threads", "-b", "--batch",
               "-c", "--checkpoint", "-o", "--out"}

HelpFlags == {"-h", "--help"}

\* The arguments the command lines are made of: flags the program knows,
\* one it does not know, and a number.
Tokens == {"-i", "-t", "-b", "-c", "-o", "-h", "--iters", "--bogus", "2"}

\* The arguments std::stoll and std::stoi convert, with their values; on any
\* other argument they throw std::invalid_argument.
Numbers == {"2"}

NumberOf(a) == 2

CommandLines == UNION {[1..n -> Tokens] : n \in 0..MaxArgs}

\* threads as initialized from std::thread::hardware_concurrency() = hw
DefaultThreads(hw) == Max(1, IF hw # 0 THEN hw - 1 ELSE 1)

\* main before its argument loop, on a machine with hw hardware threads
InitArgs ==
  /\ NoGame
  /\ NoRegretMatch
  /\ argv \in CommandLines
  /\ argi = 1
  /\ NoFurther
  /\ \E hw \in 0..(MaxThreads + 1) :
       args = [iters |-> 1000000, threads |-> DefaultThreads(hw), batch |-> 20000,
               checkpoint_interval |-> 500000, out_path |-> "cfr_strategy.bin"]
  /\ done = 0
  /\ last_checkpoint = 0
  /\ per = 0
  /\ batch_done = 0
  /\ mpc = "args"
  /\ wi = 0
  /\ tpc = <<>>
  /\ seeds = <<>>
  /\ local = <<>>
  /\ results = <<>>
  /\ global = EmptyTable
  /\ saves = <<>>
  /\ run = 1
  /\ first = <<>>
  /\ pre = EmptyTable
  /\ order = <<>>

\* main: one round of for (int i=1;i<argc;++i).  A value flag followed by
\* an argument converts and stores it (an uncaught std::invalid_argument
\* ends the program in std::terminate); a help flag prints the usage and
\* returns 0; any other argument matches no branch and is passed over.
ParseArg ==
  /\ mpc = "args"
  /\ argi <= Len(argv)
  /\ LET a == argv[argi]
         has == argi < Len(argv)
         v == argv[argi + 1]
     IN IF a \in ValueFlags /\ has
        THEN IF a \in {"-o", "--out"}
             THEN args' = [args EXCEPT !.out_path = v] /\ argi' = argi + 2 /\ mpc' = mpc
             ELSE IF v \notin Numbers
             THEN mpc' = "terminate" /\ UNCHANGED <<args, argi>>
             ELSE /\ args' = IF a \in {"-i", "--iters"} THEN [args EXCEPT !.iters = NumberOf(v)]
                             ELSE IF a \in {"-t", "--threads"} THEN [args EXCEPT !.threads = NumberOf(v)]
                             ELSE IF a \in {"-b", "--batch"} THEN [args EXCEPT !.batch = NumberOf(v)]
                             ELSE [args EXCEPT !.checkpoint_interval = NumberOf(v)]
                  /\ argi' = argi + 2
                  /\ mpc' = mpc
        ELSE IF a \in HelpFlags
        THEN mpc' = "usage_return_0" /\ UNCHANGED <<args, argi>>
        ELSE argi' = argi + 1 /\ mpc' = mpc /\ UNCHANGED args
  /\ UNCHANGED <<done, last_checkpoint, per, batch_done, wi, tpc, seeds, local,
                 results, global, saves, run, first, pre, order, argv>>
  /\ UNCHANGED <<gvars, rvars, fvars, cvars>>

\* main: the end of the argument loop; the banner is printed and training
\* starts
ParseDone ==
  /\ mpc = "args"
  /\ argi > Len(argv)
  /\ mpc' = "while"
  /\ tpc' = [i \in Threads |-> "unborn"]
  /\ seeds' = [i \in Threads |-> 0]
  /\ local' = [i \in Threads |-> EmptyResult]
  /\ results' = [i \in Threads |-> EmptyResult]
  /\ UNCHANGED <<args, done, last_checkpoint, per, batch_done, wi,
                 global, saves, run, first, pre, order, argv, argi>>
  /\ UNCHANGED <<gvars, rvars, fvars, cvars>>

NextArgs == ParseArg \/ ParseDone

SpecArgs == InitArgs /\ [][NextArgs]_vars

\* ------------------------------------------------------------------------
\* The single-threaded trainer run twice with the same command line
\* ------------------------------------------------------------------------
InitTwoRuns ==
  /\ NoGame
  /\ NoRegretMatch
  /\ NoExtras
  /\ \E a \in {x \in ArgSets : x.threads = 1} : Started(a)
  /\ run = 1
  /\ first = <<>>

\* The program has returned; it is started again with the same command
\* line, the file of the first run kept for comparison.
Rerun ==
  /\ mpc = "exit"
  /\ run = 1
  /\ first' = saves[Len(saves)]
  /\ run' = 2
  /\ done' = 0
  /\ last_checkpoint' = 0
  /\ per' = 0
  /\ batch_done' = 0
  /\ mpc' = "while"
  /\ wi' = 0
  /\ tpc' = [i \in Threads |-> "unborn"]
  /\ seeds' = [i \in Threads |-> 0]
  /\ local' = [i \in Threads |-> EmptyResult]
  /\ results' = [i \in Threads |-> EmptyResult]
  /\ global' = EmptyTable
  /\ saves' = <<>>
  /\ pre' = EmptyTable
  /\ order' = <<>>
  /\ UNCHANGED args
  /\ UNCHANGED <<gvars, rvars, evars, fvars, cvars>>

NextTwoRuns == NextTrain \/ Rerun

SpecTwoRuns == InitTwoRuns /\ [][NextTwoRuns]_vars

\* ------------------------------------------------------------------------
\* merge_into applied to any tables, the worker tables taken in any order
\* ------------------------------------------------------------------------
InitMerge ==
  /\ NoGame
  /\ NoRegretMatch
  /\ NoExtras
  /\ args = [iters |-> 0, threads |-> MergeWorkers, batch |-> 1, checkpoint_interval |-> 1,
             out_path |-> "cfr_strategy.bin"]
  /\ done = 0
  /\ last_checkpoint = 0
  /\ per = 1
  /\ batch_done = 0
  /\ mpc = "merging"
  /\ wi = 0
  /\ tpc = [i \in 0..(MergeWorkers - 1) |-> "finished"]
  /\ seeds = [i \in 0..(MergeWorkers - 1) |-> 0]
  /\ results \in [0..(MergeWorkers - 1) -> [table : Tables, iters : {1}]]
  /\ local = results
  /\ global \in Tables
  /\ saves = <<>>
  /\ run = 1
  /\ first = <<>>
  /\ pre = global
  /\ order = <<>>

\* merge_into(global, results[w].table) for a worker w not merged yet
MergeAny ==
  /\ mpc = "merging"
  /\ \E i \in Threads \ Elems(order) :
       /\ global' = merge_into(global, results[i].table)
       /\ order' = Append(order, i)
  /\ UNCHANGED <<args, done, last_checkpoint, per, batch_done, mpc, wi, tpc, seeds, local,
                 results, saves, run, first, pre>>
  /\ UNCHANGED <<gvars, rvars, evars, fvars, cvars>>

NextMerge == MergeAny

SpecMerge == InitMerge /\ [][NextMerge]_vars

\* ------------------------------------------------------------------------
\* Properties
\* ------------------------------------------------------------------------
\* The cards held in each hand's first hand_sizes slots.
HeldCards(s) ==
  [q \in 0..1 |-> [i \in 0..(s.hand_sizes[q] - 1) |-> s.hands[q][i]]]

\* The board cards in the first board_size slots.
BoardPrefix(s) == [i \in 0..(s.board_size - 1) |-> s.board[i]]

\* Two GameStates agree on every field a caller can observe.
SameState(a, b) ==
  /\ a.street = b.street
  /\ a.current_player = b.current_player
  /\ a.pips = b.pips
  /\ a.stacks = b.stacks
  /\ a.bb_discarded = b.bb_discarded
  /\ a.sb_discarded = b.sb_discarded
  /\ a.is_terminal = b.is_terminal
  /\ a.payoffs = b.payoffs
  /\ a.deck_idx = b.deck_idx
  /\ a.hand_sizes = b.hand_sizes
  /\ HeldCards(a) = HeldCards(b)
  /\ a.board_size = b.board_size
  /\ BoardPrefix(a) = BoardPrefix(b)
  /\ a.history = b.history
  /\ a.street_history = b.street_history

\* C1: apply_action(a, u) followed by undo_action(u) restores every field of
\* the state apply_action was called in: street, current_player, pips,
\* stacks, discard flags, is_terminal, payoffs, deck_idx, hand_sizes and the
\* held cards, board_size and the board prefix, and both histories.
UndoRoundTrip == phase = "undone" => SameState(st, before)

\* C2: when a top-level call of cfr_traverse returns, the GameState equals
\* the state it was entered with (hole cards, hand sizes, board, deck index,
\* street, pips, stacks, histories, flags), so the traversal for
\* update_player = 1 runs on the deal the one for update_player = 0 ran on.
TraversalRestores == wpc = "returned" => SameState(st, entry)

\* The last step was a fold.
Folded == phase = "play" /\ last = FOLD

\* C3: a fold makes the state terminal and costs the folding player exactly
\* the chips that player has put in, the opponent winning the same amount;
\* SB RAISE_SMALL then BB FOLD gives payoffs {+2, -2} (held as half chips).
FoldLosesOwnChips ==
  Folded =>
    LET f == before.current_player
        put_in == STARTING_STACK - st.stacks[f + 1]
    IN /\ st.is_terminal
       /\ st.payoffs[f + 1] = -(2 * put_in)
       /\ st.payoffs[(1 - f) + 1] = 2 * put_in
       /\ st.history = <<<<0, RAISE_SMALL>>>> => st.payoffs = <<4, -4>>

\* C4: in every terminal state, reached by a fold or by showdown,
\* payoffs[0] + payoffs[1] = 0.
ZeroSum == st.is_terminal => st.payoffs[1] + st.payoffs[2] = 0

\* A terminal state reached by showdown in which the small blind is paid.
ZeroSumWitness ==
  /\ st.is_terminal
  /\ last = CHECK_CALL
  /\ st.payoffs[1] > 0
  /\ st.payoffs[2] < 0

\* The last step settled the river betting: the hand went to showdown.
AtShowdown == phase = "play" /\ st.is_terminal /\ last = CHECK_CALL

\* The 2 hole cards of player q followed by the 6 board cards.
EightCards(s, q) ==
  <<s.hands[q][0], s.hands[q][1], s.board[0], s.board[1], s.board[2],
    s.board[3], s.board[4], s.board[5]>>

\* C5: at showdown each player's hand is ranked on its 2 hole cards plus the
\* 6 board cards; the better hand receives +pot/2 and the other -pot/2, a tie
\* gives {0, 0}; and pot/2 is each player's total contribution.  (payoffs
\* are held as half chips, so +-pot/2 is held as +-pot.)
ShowdownPays ==
  AtShowdown =>
    LET h0 == evaluate_best(EightCards(st, 0))
        h1 == evaluate_best(EightCards(st, 1))
        chips == (STARTING_STACK - st.stacks[1]) + (STARTING_STACK - st.stacks[2])
    IN /\ chips = 2 * (STARTING_STACK - st.stacks[1])
       /\ chips = 2 * (STARTING_STACK - st.stacks[2])
       /\ HandGreater(h0, h1) => st.payoffs = <<chips, -chips>>
       /\ HandGreater(h1, h0) => st.payoffs = <<-chips, chips>>
       /\ h0 = h1 => st.payoffs = <<0, 0>>

\* A showdown the big blind wins after a raise was called.
ShowdownPaysWitness ==
  /\ AtShowdown
  /\ NumRaises(st.history) > 0
  /\ st.payoffs[2] > 4

\* C6: pot + stacks[0] + stacks[1] = 2*STARTING_STACK, every stack is within
\* 0..STARTING_STACK (so the pot is within 0..800), and a player's pip is at
\* most what that player has put in.
Conservation ==
  /\ pot(st) + st.stacks[1] + st.stacks[2] = 2 * STARTING_STACK
  /\ pot(st) >= 0 /\ pot(st) <= 800
  /\ \A q \in 1..2 :
       /\ st.stacks[q] >= 0
       /\ st.stacks[q] <= STARTING_STACK
       /\ st.pips[q] <= STARTING_STACK - st.stacks[q]

\* Both players are all in and a later street's pips are below what was put in.
ConservationWitness ==
  /\ st.stacks = <<0, 0>>
  /\ st.pips = <<0, 0>>
  /\ ~st.is_terminal

\* The state is the one reset() leaves.
IsInitial(s) == s.history = <<>> /\ s.board_size = 0 /\ ~s.is_terminal

\* C7: legal_actions() is empty in a terminal state, {4,5,6} in a discard
\* phase, and otherwise holds CHECK_CALL, FOLD iff continue_cost > 0, and both
\* raises iff both players have chips and, facing a bet, the current
\* player's stack exceeds continue_cost; at the initial state SB faces
\* continue_cost = 1 and may FOLD, CHECK_CALL, RAISE_SMALL or RAISE_LARGE.
LegalActionsSet ==
  LET L == legal_actions(st)
      S == Elems(L)
      cp == st.current_player
      cost == st.pips[(1 - cp) + 1] - st.pips[cp + 1]
      can_raise == /\ st.stacks[1] > 0
                   /\ st.stacks[2] > 0
                   /\ cost > 0 => st.stacks[cp + 1] > cost
  IN /\ Cardinality(S) = Len(L)
     /\ IF st.is_terminal THEN S = {}
        ELSE IF st.street \in {STREET_BB_DISCARD, STREET_SB_DISCARD}
        THEN S = {DISCARD0, DISCARD1, DISCARD2}
        ELSE /\ S \subseteq {FOLD, CHECK_CALL, RAISE_SMALL, RAISE_LARGE}
             /\ CHECK_CALL \in S
             /\ FOLD \in S <=> cost > 0
             /\ RAISE_SMALL \in S <=> can_raise
             /\ RAISE_LARGE \in S <=> can_raise
     /\ IsInitial(st) =>
          /\ continue_cost(st) = 1
          /\ S = {FOLD, CHECK_CALL, RAISE_SMALL, RAISE_LARGE}

\* The current player faces an all-in bet: it may only fold or call.
LegalActionsSetWitness ==
  /\ ~st.is_terminal
  /\ st.stacks[(1 - st.current_player) + 1] = 0
  /\ legal_actions(st) = <<FOLD, CHECK_CALL>>

\* The last step was a betting action other than FOLD.
BetStep == phase = "play" /\ last \in {CHECK_CALL, RAISE_SMALL, RAISE_LARGE}

\* The players who have acted on the street once the last action is counted.
ActedOnStreet == {e[1] : e \in Elems(before.street_history)} \cup {before.current_player}

\* The pips once the chips of the last action had moved (a street that ends
\* zeroes them afterwards; stacks keep the chips moved).
PipsAfterBet ==
  [q \in 1..2 |-> before.pips[q] + (before.stacks[q] - st.stacks[q])]

\* The last betting action ended its street (the river's end is the showdown).
StreetEnded == st.street # before.street \/ st.is_terminal

\* C8: after a betting action other than FOLD the street ends iff both players
\* have acted on it, pips are equal and the action was CHECK_CALL; otherwise
\* the turn passes and the street is unchanged.  SB's preflop call does not
\* end preflop, and a raise never ends a street.
StreetEndRule ==
  BetStep =>
    LET settled == /\ ActedOnStreet = {0, 1}
                   /\ PipsAfterBet[1] = PipsAfterBet[2]
                   /\ last = CHECK_CALL
    IN /\ StreetEnded <=> settled
       /\ ~settled => /\ st.current_player = 1 - before.current_player
                      /\ st.street = before.street
                      /\ st.pips = PipsAfterBet
       /\ IsInitial(before) /\ last = CHECK_CALL =>
            st.street = STREET_PREFLOP /\ st.current_player = 1
       /\ IsRaise(last) => ~StreetEnded

\* A call of a raise ended a post-flop street, the caller being the second to
\* act on it.
StreetEndRuleWitness ==
  /\ BetStep
  /\ last = CHECK_CALL
  /\ before.street = STREET_TURN
  /\ Len(before.street_history) = 1
  /\ before.pips # <<0, 0>>
  /\ st.street = STREET_RIVER

\* The last step of direct play moved the game into street t.
Entered(t) == phase = "play" /\ last # -1 /\ before.street # t /\ st.street = t

IsPrefix(s, t) == Len(s) <= Len(t) /\ s = SubSeq(t, 1, Len(s))

AtBettingNode == wpc = "run" /\ ~st.is_terminal /\ ~is_discard_phase(st)

\* The 7-value street code of the betting round state s is in, the round
\* being told by the number of board cards.
DiskStreet(s) ==
  IF s.board_size = 0 THEN 0
  ELSE IF s.board_size = 2 THEN 4
  ELSE IF s.board_size = 5 THEN 5
  ELSE 6

\* C11: every InfoKey the traversal inserts into a table carries the 7-value
\* street code: 0 for preflop betting, 4 for flop betting, 5 for turn betting,
\* 6 for river betting; no stored key has street 1.
KeyStreets ==
  /\ \A k \in DOMAIN table : k.street \in {0, 4, 5, 6}
  /\ AtBettingNode =>
       info_key(st, st.current_player, legal_actions(st)).street = DiskStreet(st)

\* The worker has called reset at least once.
AfterReset == ~(wpc = "reset" /\ iter = 0)

\* C12: in every state reached by apply_action and undo_action after reset,
\* hand_sizes[p] is 2 or 3, hand_sizes[1] = 2 iff bb_discarded and
\* hand_sizes[0] = 2 iff sb_discarded.
HandSizes ==
  AfterReset =>
    /\ \A q \in 0..1 : st.hand_sizes[q] \in {2, 3}
    /\ st.hand_sizes[1] = 2 <=> st.bb_discarded
    /\ st.hand_sizes[0] = 2 <=> st.sb_discarded

\* The traversal is back at an SB discard node after a discard of SB was
\* applied and undone: SB holds three cards again, BB two.
HandSizesWitness ==
  /\ wpc = "run"
  /\ st.street = STREET_SB_DISCARD
  /\ Len(Top.todo) < 3
  /\ st.hand_sizes[0] = 3
  /\ st.hand_sizes[1] = 2

\* C13: at every non-terminal betting node continue_cost =
\* pips[opponent] - pips[current_player] >= 0; after a legal raise the
\* raiser's pip is strictly greater than the opponent's, who is then to act.
CostNonNegative ==
  /\ ~st.is_terminal /\ st.street \notin {STREET_BB_DISCARD, STREET_SB_DISCARD} =>
       LET cp == st.current_player IN
       /\ continue_cost(st) = st.pips[(1 - cp) + 1] - st.pips[cp + 1]
       /\ continue_cost(st) >= 0
  /\ phase = "play" /\ IsRaise(last) =>
       LET raiser == before.current_player IN
       /\ st.pips[raiser + 1] > st.pips[(1 - raiser) + 1]
       /\ st.current_player = 1 - raiser
       /\ ~st.is_terminal

\* A raise over a raise: the raiser faced a bet and now holds the larger pip.
CostNonNegativeWitness ==
  /\ phase = "play"
  /\ IsRaise(last)
  /\ continue_cost(before) > 1
  /\ continue_cost(st) > 0

\* C14: an illegal action is never silently masked.  When apply_action has
\* returned from a call made on a non-terminal state with an action that
\* legal_actions() does not list, the state is the one it was called in: no
\* chips moved, no history entry, no turn passed, no card discarded, no
\* terminal flag or payoff set.
IllegalNeverMasked == phase = "illegal" => st = before

\* cfr_traverse is entered at a discard node.
EntersDiscardNode ==
  /\ wpc' = "run"
  /\ Len(frames') > Len(frames)
  /\ ~st'.is_terminal
  /\ is_discard_phase(st')

\* C15: discards are not learned.  No key of the table has street
\* BB_DISCARD or SB_DISCARD, no key's legal_mask has one of the bits 4..6
\* set, and entering cfr_traverse at a discard node leaves the table as it
\* was: no node created, none updated.
DiscardsNotLearned ==
  /\ [](\A k \in DOMAIN table :
          /\ k.street \notin {STREET_BB_DISCARD, STREET_SB_DISCARD}
          /\ k.legal_mask < 2^DISCARD0)
  /\ [][EntersDiscardNode => table' = table]_vars

\* The traversal is at SB's discard node, past BB's, with nodes in the table.
DiscardsNotLearnedWitness ==
  /\ wpc = "run"
  /\ st.street = STREET_SB_DISCARD
  /\ ~st.is_terminal
  /\ Cardinality(DOMAIN table) >= 2

\* The sum of the fractions f[a], a in S, as a fraction.
RECURSIVE FracSum(_, _)
FracSum(f, S) ==
  IF S = {} THEN <<0, 1>>
  ELSE LET a == CHOOSE x \in S : TRUE
           r == FracSum(f, S \ {a})
       IN <<f[a][1] * r[2] + r[1] * f[a][2], f[a][2] * r[2]>>

\* C16: regret_match(node, L) returns a probability distribution supported
\* on L.  Every entry is >= 0, the entry of an action outside L is 0, the
\* entries over L sum to 1; when some legal action has a positive regret
\* p(a) = max(0, R[a]) / (sum over b in L of max(0, R[b])), and when every
\* legal action has regret <= 0, p(a) = 1 / |L| for every a in L.
RegretMatchDistribution ==
  rmpc = "done" =>
    LET L == Elems(legal)
        pos(a) == IF node[a] > 0 THEN node[a] ELSE 0
        RECURSIVE total(_)
        total(S) == IF S = {} THEN 0
                    ELSE LET a == CHOOSE x \in S : TRUE IN pos(a) + total(S \ {a})
        sum == FracSum(strat, L)
    IN /\ \A a \in 0..(NUM_ACTIONS - 1) : strat[a][2] > 0 /\ strat[a][1] >= 0
       /\ \A a \in (0..(NUM_ACTIONS - 1)) \ L : strat[a][1] = 0
       /\ sum[1] = sum[2]
       /\ total(L) > 0 =>
            \A a \in L : strat[a][1] * total(L) = pos(a) * strat[a][2]
       /\ total(L) = 0 =>
            \A a \in L : strat[a][1] * Cardinality(L) = strat[a][2]

\* regret_match has returned for a node with a positive and a negative
\* regret among the legal actions and a positive regret outside them.
RegretMatchDistributionWitness ==
  /\ rmpc = "done"
  /\ \E a \in Elems(legal) : node[a] > 0
  /\ \E a \in Elems(legal) : node[a] < 0
  /\ \E a \in (0..(NUM_ACTIONS - 1)) \ Elems(legal) : node[a] > 0

\* Thread i has been started and has not ended.
Running(i) == tpc[i] \in {"started", "ran"}

\* What a running worker thread reads or writes before it ends: the
\* WorkerResult r, generator and GameState inside its run_worker, its own
\* slot of results, and (reading only) per.
WorkerTouches(i) ==
  IF Running(i)
  THEN {<<"r", i>>, <<"rng", i>>, <<"st", i>>, <<"results", i>>}
  ELSE {}

\* What the next step of main reads or writes of the tables and slots.
MainTouches ==
  IF mpc = "while" THEN {<<"results", i>> : i \in Threads} \cup {<<"per">>}
  ELSE IF mpc = "spawn" THEN {<<"results", wi>>}
  ELSE IF mpc = "merge" THEN {<<"results", wi>>, <<"global">>}
  ELSE IF mpc = "end" THEN {<<"results", i>> : i \in Threads} \cup {<<"global">>}
  ELSE IF mpc = "final" THEN {<<"global">>}
  ELSE {}

\* C17: concurrency discipline.  A running worker touches only the table,
\* generator and GameState of its own run_worker and its own result slot;
\* main touches the global table, and a worker's result slot, only while
\* no worker thread of the batch is running, i.e. after every join has
\* returned (or before the thread is started); no table or result slot is
\* touched by two threads at once, and main does not write per while a
\* worker may read it.
ConcurrencyDiscipline ==
  /\ \A i \in DOMAIN tpc :
       /\ WorkerTouches(i) \cap MainTouches = {}
       /\ <<"global">> \notin WorkerTouches(i)
       /\ Running(i) => <<"per">> \notin MainTouches
       /\ \A j \in DOMAIN tpc : j # i => WorkerTouches(i) \cap WorkerTouches(j) = {}
  /\ <<"global">> \in MainTouches => \A i \in DOMAIN tpc : tpc[i] \in {"unborn", "finished"}
  /\ mpc \in {"merge", "end"} => \A i \in DOMAIN tpc : tpc[i] = "finished"

\* Two workers of a later batch run at once while main waits in join, the
\* global table holding the first batch.
ConcurrencyDisciplineWitness ==
  /\ mpc = "join"
  /\ args.threads = 2
  /\ Running(0) /\ Running(1)
  /\ done > 0
  /\ global # EmptyTable

\* Entry a of field f ("regret" or "strat_sum") of key k in table t, 0 for
\* a key the table does not hold.
EntryOf(t, k, f, a) ==
  IF k \notin DOMAIN t THEN 0
  ELSE IF f = "regret" THEN t[k].regret[a] ELSE t[k].strat_sum[a]

Fields == {"regret", "strat_sum"}

\* The keys of the tables merged so far and of the table they were merged into.
MergedKeys == DOMAIN pre \cup UNION {DOMAIN results[i].table : i \in Elems(order)}

\* The exact sum of an entry over the table merged into and the workers
\* merged so far.
RECURSIVE ExactSum(_, _, _, _)
ExactSum(k, f, a, ord) ==
  IF ord = <<>> THEN EntryOf(pre, k, f, a)
  ELSE ExactSum(k, f, a, SubSeq(ord, 1, Len(ord) - 1))
         + EntryOf(results[ord[Len(ord)]].table, k, f, a)

\* The entry accumulated in doubles, the workers holding the key added one
\* after another in the order merged.
RECURSIVE Accumulated(_, _, _, _)
Accumulated(k, f, a, ord) ==
  IF ord = <<>> THEN EntryOf(pre, k, f, a)
  ELSE LET i == ord[Len(ord)]
           acc == Accumulated(k, f, a, SubSeq(ord, 1, Len(ord) - 1))
       IN IF k \in DOMAIN results[i].table
          THEN FAdd(acc, EntryOf(results[i].table, k, f, a))
          ELSE acc

\* The sum of the magnitudes of an entry over all the tables.
RECURSIVE Magnitude(_, _, _, _)
Magnitude(k, f, a, ord) ==
  IF ord = <<>> THEN Abs(EntryOf(pre, k, f, a))
  ELSE Magnitude(k, f, a, SubSeq(ord, 1, Len(ord) - 1))
         + Abs(EntryOf(results[ord[Len(ord)]].table, k, f, a))

AllMerged == mpc = "merging" /\ Len(order) = MergeWorkers

\* C18 as stated: after the merges, every entry of the global table is its
\* value before the merges plus the sum of the workers' values for the key,
\* whatever the order the worker tables were merged in.
MergeIsSum ==
  AllMerged =>
    \A k \in MergedKeys : \A f \in Fields : \A a \in 0..(NUM_ACTIONS - 1) :
      EntryOf(global, k, f, a) = ExactSum(k, f, a, order)

\* C18: merge is a pointwise accumulation.  After any number of merges the
\* keys of the global table are its keys before the merges and those of
\* the worker tables merged; every entry is the value before the merges
\* with the workers' values added to it one after another in the order
\* merged, each addition rounded to a double; it is the exact sum, and so
\* the same for every order, whenever the magnitudes involved sum to less
\* than 2^MantissaBits; the worker tables are not modified.
MergeInOrder ==
  mpc = "merging" =>
    /\ DOMAIN global = MergedKeys
    /\ \A k \in MergedKeys : \A f \in Fields : \A a \in 0..(NUM_ACTIONS - 1) :
         /\ EntryOf(global, k, f, a) = Accumulated(k, f, a, order)
         /\ Magnitude(k, f, a, order) < 2^MantissaBits =>
              EntryOf(global, k, f, a) = ExactSum(k, f, a, order)
    /\ results = local

\* Every worker table has been merged, one created a key the global table
\* did not hold, and an addition was rounded.
MergeInOrderWitness ==
  /\ AllMerged
  /\ DOMAIN global # DOMAIN pre
  /\ \E k \in MergedKeys : EntryOf(global, k, "regret", 0) # ExactSum(k, "regret", 0, order)

\* The indexes of the files written to the output path.
FinalSaves == {n \in 1..Len(saves) : saves[n].path = args.out_path}

\* What holds of a batch while it runs, and of main once it has returned.
BatchLoopInvariant ==
  /\ mpc \in {"spawn", "join", "merge", "end"} =>
       /\ done < args.iters
       /\ per = Max(1, Min(args.batch, (args.iters - done) \div args.threads + 1))
       /\ per >= 1
       /\ \A i \in Threads :
            /\ tpc[i] = "ran" => local[i].iters = per
            /\ tpc[i] = "finished" => results[i].iters = per
  /\ mpc = "end" => batch_done = args.threads * per
  /\ mpc \in {"while", "spawn", "join", "merge", "end", "final"} => FinalSaves = {}
  /\ mpc = "exit" =>
       /\ args.iters <= done
       /\ done <= args.iters + args.threads
       /\ FinalSaves = {Len(saves)}
       /\ saves[Len(saves)].iterations = done
       /\ saves[Len(saves)].rows = global

RECURSIVE ArgErrorFrom(_, _)
ArgErrorFrom(line, i) ==
  IF i > Len(line) THEN FALSE
  ELSE IF line[i] \in HelpFlags THEN FALSE
  ELSE IF line[i] \in ValueFlags
       THEN (IF i = Len(line) THEN TRUE ELSE ArgErrorFrom(line, i + 2))
  ELSE TRUE

\* C21: argument errors are reported.  A command line with an unrecognized
\* flag, or with a value flag as its last argument, never gets as far as
\* training: the program does not reach its while loop.
ArgErrorsReported == mpc = "while" => ~ArgErrorFrom(argv, 1)


\* The rows of a written file, each of RecordLength bytes after the header.
HeaderLength == 24
RecordLength == 75
RowsOf(bytes) ==
  [i \in 1..((Len(bytes) - HeaderLength) \div RecordLength) |->
     SubSeq(bytes, HeaderLength + RecordLength * (i - 1) + 1, HeaderLength + RecordLength * i)]

ResetReinitializes ==
  phase = "reset" =>
    LET dealt == [i \in 1..52 |-> IF i <= 3 THEN st.hands[0][i - 1]
                                    ELSE IF i <= 6 THEN st.hands[1][i - 4]
                                    ELSE st.deck[i - 7]]
    IN /\ st.hand_sizes = [q \in 0..1 |-> 3]
       /\ st.board_size = 0
       /\ st.deck_idx = 0
       /\ st.street = 0
       /\ st.pips = <<1, 2>>
       /\ st.stacks = <<399, 398>>
       /\ st.current_player = 0
       /\ st.history = <<>>
       /\ st.street_history = <<>>
       /\ ~st.bb_discarded
       /\ ~st.sb_discarded
       /\ ~st.is_terminal
       /\ st.payoffs = <<0, 0>>
       /\ {dealt[i] : i \in 1..52} = 0..51

\* A reset of a terminal state reached through both discards, whose deck
\* index, flags, histories and payoffs had all moved.
ResetReinitializesWitness ==
  /\ phase = "reset"
  /\ before.is_terminal
  /\ before.bb_discarded /\ before.sb_discarded
  /\ before.deck_idx > 0
  /\ before.payoffs # <<0, 0>>

\* The ranks of a set of cards, and the number of its cards of rank r.
RanksOf(T) == {c \div 4 : c \in T}
CountOf(T, r) == Cardinality({c \in T : c \div 4 = r})

\* The distinct ranks of T, most frequent first and among equally frequent
\* ranks the highest first.
RECURSIVE ByCountThenRank(_, _)
ByCountThenRank(T, R) ==
  IF R = {} THEN <<>>
  ELSE LET top == CHOOSE r \in R : \A q \in R :
                    \/ CountOf(T, r) > CountOf(T, q)
                    \/ CountOf(T, r) = CountOf(T, q) /\ r >= q
       IN <<top>> \o ByCountThenRank(T, R \ {top})

\* The standard poker value of five cards T: the category number and the
\* tie-break ranks, padded with zeros.
StandardValue(T) ==
  LET R == RanksOf(T)
      hi == CHOOSE r \in R : \A q \in R : q <= r
      lo == CHOOSE r \in R : \A q \in R : q >= r
      wheel == R = {12, 0, 1, 2, 3}
      straight == Cardinality(R) = 5 /\ (hi - lo = 4 \/ wheel)
      flush == Cardinality({c % 4 : c \in T}) = 1
      most == CHOOSE n \in 1..4 : (\E r \in R : CountOf(T, r) = n)
                                    /\ (\A r \in R : CountOf(T, r) <= n)
      pairs == Cardinality({r \in R : CountOf(T, r) = 2})
      type == IF straight /\ flush THEN 8
              ELSE IF most = 4 THEN 7
              ELSE IF most = 3 /\ pairs = 1 THEN 6
              ELSE IF flush THEN 5
              ELSE IF straight THEN 4
              ELSE IF most = 3 THEN 3
              ELSE IF pairs = 2 THEN 2
              ELSE IF pairs = 1 THEN 1
              ELSE 0
      ties == IF straight THEN <<IF wheel THEN 3 ELSE hi>> ELSE ByCountThenRank(T, R)
  IN <<type>> \o [i \in 1..5 |-> IF i <= Len(ties) THEN ties[i] ELSE 0]

\* The sets of five of the cards of a call.
FivesOf(S) == {T \in SUBSET S : Cardinality(T) = 5}

\* C24: for five to eight distinct cards evaluate_best returns the greatest,
\* under compare, of the standard values of the sets of five of them (type 0
\* high card up to 8 straight flush, tie-break ranks in descending order of
\* importance), whatever the order of the cards; compare(a, b) =
\* -compare(b, a), and compare(a, b) = 1 exactly when a > b.
EvaluateBestStandard ==
  call_pc = "done" =>
    LET S == Elems(call_args)
        values == {StandardValue(T) : T \in FivesOf(S)}
    IN /\ call_result \in values
       /\ \A w \in values :
            /\ compare(call_result, w) >= 0
            /\ compare(call_result, w) = -compare(w, call_result)
            /\ (compare(call_result, w) = 1) = HandGreater(call_result, w)
            /\ (compare(w, call_result) = 1) = HandGreater(w, call_result)
       /\ call_result = evaluate_best(SetAsc(S))
       /\ call_result = evaluate_best(Reverse(SetAsc(S)))

\* A call with eight cards whose best five are a full house while other
\* fives of them are two pair.
EvaluateBestStandardWitness ==
  /\ call_pc = "done"
  /\ Len(call_args) = 8
  /\ call_result[1] = 6
  /\ \E T \in FivesOf(Elems(call_args)) : StandardValue(T)[1] = 2

\* The sets of five cards of a call that realise the value returned.
BestFives == {T \in FivesOf(Elems(call_args)) : eval_five(SetAsc(T)) = call_result}

Broadway == {8, 9, 10, 11, 12}
Wheel == {12, 0, 1, 2, 3}
OneSuit(T) == \A c \in T : \A d \in T : c % 4 = d % 4
IsStraightType(v) == v[1] = 4 \/ v[1] = 8

\* C25: a hand whose best five cards are 10-J-Q-K-A is a straight (type 4,
\* or 8 when the five share a suit) with first kicker 12, one whose best
\* five are A-2-3-4-5 is a straight with first kicker 3; the wheel is
\* below every other straight of its type; five cards that hold an ace and
\* are neither of these are not a straight.  Ts Js Qs Ks As 2c 3d has type
\* 8 and first kicker 12.
AceStraights ==
  call_pc = "done" =>
    /\ \A T \in BestFives :
         /\ RanksOf(T) = Broadway =>
              /\ call_result[1] = (IF OneSuit(T) THEN 8 ELSE 4)
              /\ call_result[2] = 12
         /\ RanksOf(T) = Wheel =>
              /\ call_result[1] = (IF OneSuit(T) THEN 8 ELSE 4)
              /\ call_result[2] = 3
         /\ (12 \in RanksOf(T) /\ RanksOf(T) \notin {Broadway, Wheel}) =>
              ~IsStraightType(call_result)
    /\ \A T \in FivesOf(Elems(call_args)) :
         LET v == eval_five(SetAsc(T)) IN
         /\ (RanksOf(T) = Wheel /\ IsStraightType(call_result) /\ v # call_result
              /\ v[1] = call_result[1]) => compare(v, call_result) = -1
         /\ (12 \in RanksOf(T) /\ RanksOf(T) \notin {Broadway, Wheel}) =>
              ~IsStraightType(v)
    /\ Elems(call_args) = RoyalHand => call_result = <<8, 12, 0, 0, 0, 0>>

\* A wheel straight flush returned for the five cards As 2s 3s 4s 5s.
AceStraightsWitness ==
  /\ call_pc = "done"
  /\ Elems(call_args) = {48, 0, 4, 8, 12}
  /\ call_result = <<8, 3, 0, 0, 0, 0>>

\* The high rank, the low rank and the suitedness of a pair of cards.
ClassOf(pr) ==
  LET a == pr[1] \div 4
      b == pr[2] \div 4
  IN <<IF a > b THEN a ELSE b, IF a > b THEN b ELSE a, pr[1] % 4 = pr[2] % 4>>

\* The bucket of every pair of distinct cards.
BucketOfPair == [pr \in CardPairs |-> get_hole_bucket_2card(pr[1], pr[2])]

\* C26: for two distinct cards get_hole_bucket_2card is the same in either
\* argument order and lies in 0..168: a pocket pair gets its rank (0..12), an
\* off-suit non-pair 13..90, a suited non-pair 91..168; two hands share a
\* bucket exactly when they share high rank, low rank and suitedness; all
\* 169 buckets are attained.
HoleBucket2Card ==
  call_pc = "done" =>
    LET c == ClassOf(call_args) IN
    /\ call_result = get_hole_bucket_2card(call_args[2], call_args[1])
    /\ call_result \in 0..168
    /\ c[1] = c[2] => call_result = c[1]
    /\ (c[1] # c[2] /\ ~c[3]) => call_result \in 13..90
    /\ (c[1] # c[2] /\ c[3]) => call_result \in 91..168
    /\ \A pr \in CardPairs : (BucketOfPair[pr] = call_result) = (ClassOf(pr) = c)
    /\ {BucketOfPair[pr] : pr \in CardPairs} = 0..168

\* The top bucket, returned for a suited ace-king.
HoleBucket2CardWitness ==
  /\ call_pc = "done"
  /\ call_args = <<48, 44>>
  /\ call_result = 168

\* The chips moved and left alone by the raise just applied, given the
\* target amount of the raise.
RaiseMoves(target) ==
  LET me == before.current_player + 1
      opp == 2 - before.current_player
      c == continue_cost(before)
      s == before.stacks[me]
      floor_amount == IF c > 2 THEN c + c ELSE c + 2
      wanted == IF target > floor_amount THEN target ELSE floor_amount
      raise_amount == IF wanted < s THEN wanted ELSE s
      moved == IF c + raise_amount < s THEN c + raise_amount ELSE s
  IN /\ st.stacks[me] = s - moved
     /\ st.stacks[opp] = before.stacks[opp]
     /\ st.street = before.street =>
          /\ st.pips[me] = before.pips[me] + moved
          /\ st.pips[opp] = before.pips[opp]

RaiseApplied == phase = "play" /\ last \in {RAISE_SMALL, RAISE_LARGE} /\ st # before

CardsInPlay(s) ==
  [i \in 1..s.hand_sizes[0] |-> s.hands[0][i - 1]]
  \o [i \in 1..s.hand_sizes[1] |-> s.hands[1][i - 1]]
  \o [i \in 1..s.board_size |-> s.board[i - 1]]
  \o [i \in 1..(46 - s.deck_idx) |-> s.deck[s.deck_idx + i - 1]]

\* C28: in every state reached during training the cards of both hands, of
\* the board and of the rest of the deck are pairwise distinct and are all
\* 52 cards.
CardsUnique ==
  wpc \in {"call", "run", "returned"} =>
    /\ Len(CardsInPlay(st)) = 52
    /\ Elems(CardsInPlay(st)) = 0..51

\* The activation frames[i] has made all its recursive calls.
Complete(i) == i = Len(frames) /\ frames[i].todo = <<>>

\* C29: a betting node applies and recurses on every legal action when the
\* street is preflop or the acting player is update_player, and on exactly
\* one action otherwise; a discard node expands all three discards, each
\* value weighted 1/3, when the acting player is update_player, and applies
\* exactly one discard otherwise.  The recursive call after an action of a
\* betting node gets the acting player's reach probability multiplied by
\* the action's probability and the other player's as it is; after a
\* discard both are passed on as they are.
BranchingRule ==
  wpc = "run" =>
    \A i \in 1..Len(frames) :
      LET f == frames[i]
          n == Len(f.calls)
          expands == IF f.kind = "betting"
                     THEN f.street = 0 \/ f.player = p
                     ELSE f.player = p
      IN /\ f.kind = "terminal" => n = 0
         /\ (f.kind # "terminal" /\ expands) =>
              /\ [j \in 1..n |-> f.calls[j].action] = SubSeq(f.legal, 1, n)
              /\ Complete(i) => n = Len(f.legal)
         /\ (f.kind # "terminal" /\ ~expands) =>
              /\ n <= 1
              /\ Complete(i) => n = 1
              /\ \A j \in 1..n : f.calls[j].action \in Elems(f.legal)
              /\ \A j \in 1..n : f.calls[j].den = 1 /\ ~f.calls[j].by_strat
         /\ (f.kind = "discard" /\ expands) =>
              /\ f.legal = <<4, 5, 6>>
              /\ \A j \in 1..n : f.calls[j].den = 3 /\ ~f.calls[j].by_strat
         /\ (f.kind = "betting" /\ expands) =>
              \A j \in 1..n : f.calls[j].den = 1 /\ f.calls[j].by_strat
         /\ i < Len(frames) =>
              LET child == frames[i + 1]
                  a == f.calls[n].action
              IN /\ n >= 1
                 /\ f.kind = "betting" =>
                      /\ child.reach[f.player + 1] = Append(f.reach[f.player + 1], <<f.key, a>>)
                      /\ child.reach[2 - f.player] = f.reach[2 - f.player]
                 /\ f.kind = "discard" => child.reach = f.reach

\* A sampled betting node after the flop has made its one call, below an
\* expanded discard node and a sampled one.
BranchingRuleWitness ==
  /\ wpc = "run"
  /\ Complete(Len(frames))
  /\ Top.kind = "betting" /\ Top.street # 0 /\ Top.player # p /\ Len(Top.calls) = 1
  /\ \E i \in 1..Len(frames) : frames[i].kind = "discard" /\ frames[i].player = p
  /\ \E i \in 1..Len(frames) : frames[i].kind = "discard" /\ frames[i].player # p

\* A step changes the regret array of the node of key k.
RegretChanged(k) ==
  /\ k \in DOMAIN table'
  /\ k \in DOMAIN table
  /\ table'[k].regret # table[k].regret

\* cfr_traverse is entered at a betting node.
EntersBettingNode ==
  /\ wpc' = "run"
  /\ Len(frames') > Len(frames)
  /\ frames'[Len(frames')].kind = "betting"

\* C30: in a traversal with update_player = p a regret array changes only
\* in a node whose key has player p, also where the other player's node is
\* fully expanded at preflop, while every betting node entered, of either
\* player, has its strat_sum accumulated.
RegretsOfUpdatePlayerOnly ==
  /\ [][\A k \in DOMAIN table' :
          /\ RegretChanged(k) => (k.player = p /\ wpc = "run")
          /\ (k \notin DOMAIN table) => table'[k].regret = 0]_vars
  /\ [][EntersBettingNode =>
          LET k == frames'[Len(frames')].key
          IN table'[k].strat_sum = (IF k \in DOMAIN table THEN table[k].strat_sum ELSE 0) + 1]_vars
  /\ []((wpc = "returned" /\ iter = 0 /\ p = 0) =>
          \A k \in DOMAIN table : k.player # p => table[k].regret = 0)

\* The traversal for update_player 0 has returned: the big blind's preflop
\* node was expanded and visited and has no regret update, the small
\* blind's has one.
RegretsOfUpdatePlayerOnlyWitness ==
  /\ wpc = "returned"
  /\ iter = 0
  /\ p = 0
  /\ \E k \in DOMAIN table : k.player = 1 /\ k.street = 0 /\ table[k].strat_sum > 0 /\ table[k].regret = 0
  /\ \E k \in DOMAIN table : k.player = 0 /\ k.street = 0 /\ table[k].regret > 0

\* C31: a call always matches in full.  At every betting node
\* continue_cost <= stacks[current_player]; a CHECK_CALL moves exactly
\* continue_cost chips and leaves the pips equal; the stacks are equal at
\* the start of every betting round after the flop and at showdown.
CallMatchesInFull ==
  phase = "play" =>
    /\ (~st.is_terminal /\ ~is_discard_phase(st)) =>
          continue_cost(st) <= st.stacks[st.current_player + 1]
    /\ (last = CHECK_CALL /\ st # before) =>
          /\ st.stacks[before.current_player + 1]
               = before.stacks[before.current_player + 1] - continue_cost(before)
          /\ st.stacks[2 - before.current_player] = before.stacks[2 - before.current_player]
          /\ st.pips[1] = st.pips[2]
          /\ st.street_history # <<>> =>
               st.pips[before.current_player + 1]
                 = before.pips[before.current_player + 1] + continue_cost(before)
    /\ (~st.is_terminal /\ st.street # STREET_PREFLOP /\ st.street_history = <<>>) =>
          st.stacks[1] = st.stacks[2]
    /\ (st.is_terminal /\ last # FOLD) => st.stacks[1] = st.stacks[2]

\* A call of an all-in raise: the caller pays its whole stack, which is
\* exactly the cost.
CallMatchesInFullWitness ==
  /\ phase = "play"
  /\ last = CHECK_CALL
  /\ continue_cost(before) > 0
  /\ continue_cost(before) = before.stacks[before.current_player + 1]
  /\ st.stacks = <<0, 0>>

\* The number of actions a hand can still take is bounded by a measure that
\* is a natural number, is zero exactly in terminal states, and drops with
\* every action: a raise lowers a stack, a street change lowers the streets
\* left, and a first check on a street uses up one of the two actions that
\* should_advance_street waits for.
StepsLeft(s) ==
  IF s.is_terminal THEN 0
  ELSE 1 + 3 * (STREET_RIVER - s.street) + 3 * (s.stacks[1] + s.stacks[2])
         + (2 - Min(2, Len(s.street_history)))

\* C32: every hand terminates and never deadlocks.  A non-terminal state
\* has a legal action, a raise strictly decreases the raiser's stack, and
\* every sequence of legal actions from a fresh deal reaches a terminal
\* state after finitely many actions (each action strictly lowers a
\* natural-valued measure that is zero only at terminal states), also when
\* both players are all in and check through the streets.
HandTerminates ==
  /\ [](~st.is_terminal => legal_actions(st) # <<>>)
  /\ [](StepsLeft(st) \in Nat /\ (StepsLeft(st) = 0 <=> st.is_terminal))
  /\ [][(IsRaise(last') /\ st' # st) =>
          st'.stacks[st.current_player + 1] < st.stacks[st.current_player + 1]]_vars
  /\ [][st' # st => StepsLeft(st') < StepsLeft(st)]_vars

\* A showdown with both players all in and the whole board out.
HandTerminatesWitness ==
  /\ st.is_terminal
  /\ st.stacks = <<0, 0>>
  /\ last = CHECK_CALL
  /\ st.board_size = 6
  /\ before.stacks = <<0, 0>>
\* One pass through the end of the loop body of main.
BatchBoundary == mpc = "end" /\ mpc' = "while"

\* The step wrote a checkpoint of the merged table and moved last_checkpoint.
CheckpointWritten ==
  /\ Len(saves') = Len(saves) + 1
  /\ SubSeq(saves', 1, Len(saves)) = saves
  /\ saves'[Len(saves')] =
       save_binary_v2(CheckpointPath(args.out_path, done'), global, done')
  /\ saves'[Len(saves')].iterations = done'
  /\ saves'[Len(saves')].rows = global'
  /\ last_checkpoint' = done'

\* A file is written only by main between batches or at the end, when every
\* worker of the batch has been joined and its table merged.
WritesOnlyAfterMerge ==
  saves' # saves =>
    /\ mpc \in {"end", "final"}
    /\ \A i \in Threads : tpc[i] \in {"finished", "unborn"}
    /\ mpc = "end" =>
         /\ \A i \in Threads : tpc[i] = "finished"
         /\ Len(order) = args.threads
         /\ global' = global

\* C33 as stated: at each batch boundary, after all workers are joined and
\* merged, a checkpoint is written iff the iterations completed since the
\* last checkpoint exceed checkpoint_interval; writing one sets
\* last_checkpoint to done; none is written while a batch is running, and it
\* holds the fully merged global table with header iterations = done.
CheckpointWhenExceeded ==
  [][/\ WritesOnlyAfterMerge
     /\ BatchBoundary =>
          IF done' - last_checkpoint > args.checkpoint_interval
          THEN CheckpointWritten
          ELSE saves' = saves /\ last_checkpoint' = last_checkpoint]_vars

\* C33 amended: at each batch boundary, after all workers are joined and
\* merged, a checkpoint is written iff the iterations completed since the
\* last checkpoint are at least checkpoint_interval; writing one sets
\* last_checkpoint to done; none is written while a batch is running, and it
\* holds the fully merged global table with header iterations = done.
CheckpointWhenReached ==
  [][/\ WritesOnlyAfterMerge
     /\ BatchBoundary =>
          IF done' - last_checkpoint >= args.checkpoint_interval
          THEN CheckpointWritten
          ELSE saves' = saves /\ last_checkpoint' = last_checkpoint]_vars

\* A checkpoint written when exactly checkpoint_interval iterations had been
\* completed since the start, after a batch boundary that wrote none.
CheckpointWhenReachedWitness ==
  /\ mpc = "while"
  /\ args.checkpoint_interval = 2
  /\ per = 1
  /\ args.threads = 1
  /\ done = 2
  /\ last_checkpoint = 2
  /\ Len(saves) = 1
  /\ saves[1].iterations = 2
  /\ saves[1].path = CheckpointPath(args.out_path, 2)
NodesSound(tbl) ==
  \A k \in DOMAIN tbl :
    LET acts == LegalOfKey(k)
        nd == tbl[k]
    IN /\ \A a \in 0..(NUM_ACTIONS - 1) : -1 \notin nd.sum_at[a]
       /\ \A a \in (0..(NUM_ACTIONS - 1)) \ acts :
            nd.regret_at[a] = {0} /\ nd.sum_at[a] = {0}
       /\ CHECK_CALL \in acts
       /\ nd.by = {k.player}

\* C35: in every table, worker-local or global, after any number of
\* iterations and merges, each node has strat_sum[a] >= 0 for all a, and
\* regret[a] = 0 and strat_sum[a] = 0 for every betting action a whose bit is
\* not set in the key's legal_mask; every stored key has the CHECK_CALL bit
\* set and key.player equal to the player who acted at the node.
NodeInvariant ==
  /\ NodesSound(table)
  /\ NodesSound(global)
  /\ \A i \in 1..Len(frames) :
       frames[i].kind = "betting" =>
         /\ frames[i].key \in DOMAIN table
         /\ frames[i].key.player = frames[i].player
         /\ frames[i].acts = LegalOfKey(frames[i].key)

\* A merged global table with a node in which FOLD is not legal and has
\* untouched entries while the entries of CHECK_CALL have been written, a
\* node that was in the global table before and was updated by the worker,
\* and a node of the other player.
NodeInvariantWitness ==
  /\ wpc = "merged"
  /\ \E k \in DOMAIN global :
       /\ FOLD \notin LegalOfKey(k)
       /\ global[k].regret >= 1
       /\ global[k].regret_at[FOLD] = {0}
       /\ global[k].regret_at[CHECK_CALL] = Signs
       /\ 1 \in global[k].sum_at[CHECK_CALL]
  /\ \E k \in DOMAIN global : k.player = 0 /\ global[k].regret >= 2
  /\ \E k \in DOMAIN global : k.player = 1
\* What the acting player of state s observes: the street, its own hole
\* cards, the board, the stacks and pips, the betting history and the
\* discard flags.
View(s) ==
  [ player |-> s.current_player,
    street |-> s.street,
    hole |-> {s.hands[s.current_player][i] : i \in 0..(s.hand_sizes[s.current_player] - 1)},
    board |-> {s.board[i] : i \in 0..(s.board_size - 1)},
    stacks |-> s.stacks,
    pips |-> s.pips,
    history |-> s.history,
    bb_discarded |-> s.bb_discarded,
    sb_discarded |-> s.sb_discarded ]

\* The two hands are at a decision and look the same to the acting player.
SameView == ~st.is_terminal /\ ~entry.is_terminal /\ View(st) = View(entry)

\* C36: the InfoKey computed for the acting player does not depend on the
\* opponent's hole cards or on the undrawn deck: two reachable states that
\* agree on the acting player, the street, that player's own hole cards, the
\* board, stacks and pips, the betting history and the discard flags yield
\* identical InfoKeys and identical legal action sets.
InfoSetSound ==
  SameView =>
    /\ legal_actions(st) = legal_actions(entry)
    /\ info_key(st, st.current_player, legal_actions(st))
         = info_key(entry, entry.current_player, legal_actions(entry))

\* After the discards a player is to act on the turn and sees the same in
\* both hands, while the other player holds other cards and the undrawn
\* decks differ.
InfoSetSoundWitness ==
  /\ SameView
  /\ st.street = STREET_TURN
  /\ st.hands[1 - st.current_player] # entry.hands[1 - entry.current_player]
  /\ st.deck # entry.deck
  /\ st.history # <<>>
\* The positions of history h that hold a raise, and those that hold a
\* RAISE_LARGE.
RaisesIn(h) == {i \in 1..Len(h) : h[i][2] \in {RAISE_SMALL, RAISE_LARGE}}

LargeIn(h) == {i \in 1..Len(h) : h[i][2] = RAISE_LARGE}

\* History h read backwards with the players exchanged.
Mirrored(h) == [i \in 1..Len(h) |-> <<1 - h[Len(h) + 1 - i][1], h[Len(h) + 1 - i][2]>>]

\* C37: get_history_bucket classifies the full betting history into six
\* bins: 0 iff the history is empty, 1 iff it is non-empty with no raise,
\* 2 iff it holds exactly one raise and that raise is RAISE_SMALL, 3 iff
\* exactly one raise and it is RAISE_LARGE, 4 iff exactly two raises, 5 iff
\* three or more raises; the result ignores which player acted and the
\* order of the actions.
HistoryBins ==
  call_pc = "done" =>
    LET h == call_args
        b == call_result
        n == Cardinality(RaisesIn(h))
        l == Cardinality(LargeIn(h))
    IN /\ b \in 0..5
       /\ b = 0 <=> h = <<>>
       /\ b = 1 <=> (h # <<>> /\ n = 0)
       /\ b = 2 <=> (n = 1 /\ l = 0)
       /\ b = 3 <=> (n = 1 /\ l = 1)
       /\ b = 4 <=> n = 2
       /\ b = 5 <=> n >= 3
       /\ b = get_history_bucket(Mirrored(h))
       /\ \A g \in Histories :
            (Len(g) = Len(h) /\ \A a \in 0..(NUM_ACTIONS - 1) :
                 Cardinality({i \in 1..Len(g) : g[i][2] = a})
                   = Cardinality({i \in 1..Len(h) : h[i][2] = a}))
              => get_history_bucket(g) = b

\* Three raises, a small one between two large ones, by both players.
HistoryBinsWitness ==
  /\ call_pc = "done"
  /\ call_result = 5
  /\ Len(call_args) = 3
  /\ call_args[1] = <<0, RAISE_LARGE>>
  /\ call_args[2] = <<1, RAISE_SMALL>>
  /\ call_args[3] = <<0, RAISE_LARGE>>
====
